---------------------------- MODULE Spec2Model ----------------------------
(***************************************************************************)
(* A model of llm-foundry's MPT block-topology builder, sequence-id        *)
(* masking helpers, loss normalisation and of the text-to-MDS data-prep    *)
(* pipeline (convert_text_to_mds.py, modeling_mpt.py).                     *)
(*                                                                         *)
(* The module holds state machines over disjoint variables, among them:     *)
(*   Spec        the data-prep pipeline (convert_text_to_mds)              *)
(*   SpecTopo    MPTModel.construct_blocks / _get_override_block_args_list *)
(*   SpecConcat  ConcatTokensFromFilesDataset.__iter__                     *)
(*   SpecSeq     apply_sequence_id, gen_sequence_id_info, forward prelude  *)
(*   SpecLoss    compute_loss_from_logits                                  *)
(***************************************************************************)
EXTENDS Integers, Sequences, FiniteSets, TLC

VARIABLES
    \* ---- block topology (modeling_mpt.py, MPTModel.construct_blocks)
    blockCfg,       \* the MPTConfig fields read: n_layers, block_overrides
    blockRes,       \* outcome of construct_blocks: error or block args + state_cache_layers
    mergeCall,      \* the last call of _override_block_args: arguments and outcome
    \* ---- ConcatTokensFromFilesDataset.__iter__
    ccfg,           \* max_length, should_wrap, bos_tokens, eos_tokens
    cpc,            \* position of the generator
    buffer,         \* the local `buffer`
    first_chunk,    \* the local `first_chunk`
    yielded,        \* the samples yielded so far, in order
    stream,         \* every token appended to `buffer` so far, in order
    \* ---- sequence-id helpers and MPTModel.forward
    seqCall,        \* the last call: its function, arguments and outcome
    fwd,            \* the layer loop of MPTModel.forward: the model, the call, the locals
    \* ---- compute_loss_from_logits
    lossCall,       \* the last call: labels, shift_labels and the outcome
    \* ---- convert_text_to_mds
    pc,             \* position of the main process
    run,            \* arguments of the invocation in progress
    tasks,          \* state of every worker task of the process pool
    localOut,       \* the local output folder (the temporary folder when remote)
    remoteOut,      \* the remote object store under the output prefix
    events,         \* what the invocation in progress has done so far
    prev,           \* the previous invocation: arguments and outcome
    snap,           \* the output storage as it was when the invocation started
    nruns,          \* number of invocations started
    utilCall        \* the last call of a helper of the pipeline: arguments and outcome

topoVars   == <<blockCfg, blockRes>>
mergeVars  == <<mergeCall>>
concatVars == <<ccfg, cpc, buffer, first_chunk, yielded, stream>>
seqVars    == <<seqCall>>
fwdVars    == <<fwd>>
lossVars   == <<lossCall>>
pipeVars   == <<pc, run, tasks, localOut, remoteOut, events, prev, snap, nruns>>
utilVars   == <<utilCall>>
vars == <<topoVars, mergeVars, concatVars, seqVars, fwdVars, lossVars, pipeVars, utilVars>>

\* What an action of one state machine leaves alone: the other machines.
topoOthers   == <<mergeVars, concatVars, seqVars, fwdVars, lossVars, pipeVars, utilVars>>
mergeOthers  == <<topoVars, concatVars, seqVars, fwdVars, lossVars, pipeVars, utilVars>>
concatOthers == <<topoVars, mergeVars, seqVars, fwdVars, lossVars, pipeVars, utilVars>>
seqOthers    == <<topoVars, mergeVars, concatVars, fwdVars, lossVars, pipeVars, utilVars>>
fwdOthers    == <<topoVars, mergeVars, concatVars, seqVars, lossVars, pipeVars, utilVars>>
lossOthers   == <<topoVars, mergeVars, concatVars, seqVars, fwdVars, pipeVars, utilVars>>
pipeOthers   == <<topoVars, mergeVars, concatVars, seqVars, fwdVars, lossVars, utilVars>>
utilOthers   == <<topoVars, mergeVars, concatVars, seqVars, fwdVars, lossVars, pipeVars>>

\* Python's None where an optional layer index is expected (never a valid index
\* nor an index the arithmetic of the model can produce).
None == -1000

Min(a, b) == IF a < b THEN a ELSE b
Max(a, b) == IF a > b THEN a ELSE b

RECURSIVE SeqSum(_)
SeqSum(s) == IF s = <<>> THEN 0 ELSE Head(s) + SeqSum(Tail(s))

RECURSIVE Flatten(_)
Flatten(ss) == IF ss = <<>> THEN <<>> ELSE Head(ss) \o Flatten(Tail(ss))

\* Python's `lst * n` for a list.
RECURSIVE Repeat(_, _)
Repeat(s, n) == IF n <= 0 THEN <<>> ELSE s \o Repeat(s, n - 1)

\* The value of a variable of a state machine that is not running.
NoCall == [op |-> "none"]

(***************************************************************************)
(*                        BLOCK TOPOLOGY BUILDER                           *)
(***************************************************************************)

\* Bounds of the configurations enumerated.
MaxLayers == 4
MaxRepeat == 2
MaxBack   == 1

\* Module names of an `order`: 'default' and two overrides, one per reuse kind.
ModuleNames == {"default", "kv", "kvx"}
ReuseTypes  == {"reuse_kv_layer_idx", "reuse_kv_x_layer_idx"}

\* Relative offsets an override may give (negative, and 0 which is rejected).
RelIdx == (0 - MaxBack)..0

\* One entry of an `order` list: a dict with 'name' or 'order' (and 'repeat').
NameItem(n, r) ==
    [hasName |-> TRUE, name |-> n, hasOrder |-> FALSE, order |-> <<>>, repeat |-> r]
OrderItem(o, r) ==
    [hasName |-> FALSE, name |-> "", hasOrder |-> TRUE, order |-> o, repeat |-> r]
LeafItems == {NameItem(n, r) : n \in ModuleNames, r \in 1..MaxRepeat}
\* Entries the code rejects: neither key, or both keys.
BadItems ==
    { [hasName |-> FALSE, name |-> "", hasOrder |-> FALSE, order |-> <<>>, repeat |-> 1],
      [hasName |-> TRUE, name |-> "default", hasOrder |-> TRUE,
       order |-> <<NameItem("default", 1)>>, repeat |-> 1] }
NestedItems ==
    { OrderItem(<<NameItem(a, 1), NameItem(b, 1)>>, r) :
        a \in ModuleNames, b \in ModuleNames, r \in 1..MaxRepeat }
Items == LeafItems \cup BadItems \cup NestedItems
Orders == {<<i>> : i \in Items} \cup {<<i, j>> : i \in Items, j \in Items}

\* config.block_overrides['overrides']: the attn_config of every named module.
Overrides(rkv, rkvx) ==
    [ kv  |-> [reuse_kv_layer_idx |-> rkv,  reuse_kv_x_layer_idx |-> None,
               has |-> {"reuse_kv_layer_idx"}],
      kvx |-> [reuse_kv_layer_idx |-> None, reuse_kv_x_layer_idx |-> rkvx,
               has |-> {"reuse_kv_x_layer_idx"}] ]

\* MPTModel._get_modules_order_expanded: err is the ValueError of a malformed item.
RECURSIVE _get_modules_order_expanded(_)
_get_modules_order_expanded(order) ==
    IF order = <<>> THEN [err |-> FALSE, names |-> <<>>]
    ELSE LET item == Head(order)
             bad  == item.hasName = item.hasOrder
             sub  == IF item.hasName
                       THEN [err |-> FALSE, names |-> Repeat(<<item.name>>, item.repeat)]
                       ELSE LET in == _get_modules_order_expanded(item.order)
                            IN  [err |-> in.err, names |-> Repeat(in.names, item.repeat)]
             rest == _get_modules_order_expanded(Tail(order))
         IN  IF bad \/ sub.err \/ rest.err
               THEN [err |-> TRUE, names |-> <<>>]
               ELSE [err |-> FALSE, names |-> sub.names \o rest.names]

\* The override's relative index of `kind`, read from its attn_config.
RelOf(attn, kind) ==
    IF kind = "reuse_kv_layer_idx" THEN attn.reuse_kv_layer_idx
    ELSE attn.reuse_kv_x_layer_idx

\* A faulty _resolve_reuse_state_layer_idx: the check that the absolute index is
\* non-negative is missing.
Resolve_NoNegativeCheck(b_idx, rel, dict) ==
    IF rel >= 0 THEN [err |-> TRUE, idx |-> None, dict |-> dict]
    ELSE LET abs == b_idx + rel
             t == IF abs \in DOMAIN dict THEN dict[abs] ELSE abs
         IN  [err |-> FALSE, idx |-> t,
              dict |-> [k \in DOMAIN dict \cup {b_idx} |->
                           IF k = b_idx THEN t ELSE dict[k]]]

\* A faulty _resolve_reuse_state_layer_idx: the index found is not looked up in
\* reuse_state_layer_idx_dict, so that a chain is not followed to its source.
Resolve_NoFlattening(b_idx, rel, dict) ==
    IF rel >= 0 THEN [err |-> TRUE, idx |-> None, dict |-> dict]
    ELSE LET abs == b_idx + rel
         IN  IF abs < 0 THEN [err |-> TRUE, idx |-> None, dict |-> dict]
             ELSE [err |-> FALSE, idx |-> abs,
                   dict |-> [k \in DOMAIN dict \cup {b_idx} |->
                                IF k = b_idx THEN abs ELSE dict[k]]]

\* MPTModel._resolve_reuse_state_layer_idx: the absolute index, the dict updated,
\* or the ValueError (a non-negative offset, a negative absolute index).
_resolve_reuse_state_layer_idx(b_idx, rel, dict) ==
    IF rel >= 0 THEN [err |-> TRUE, idx |-> None, dict |-> dict]
    ELSE LET abs == b_idx + rel
         IN  IF abs < 0 THEN [err |-> TRUE, idx |-> None, dict |-> dict]
             ELSE LET t == IF abs \in DOMAIN dict THEN dict[abs] ELSE abs
                  IN  [err |-> FALSE, idx |-> t,
                       dict |-> [k \in DOMAIN dict \cup {b_idx} |->
                                    IF k = b_idx THEN t ELSE dict[k]]]

EmptyDict == [k \in {} |-> 0]

\* A faulty loop: one reuse_state_layer_idx_dict serves both reuse kinds, so
\* that a reference is followed through layers of the other kind too.
RECURSIVE BuildLayers_OneDictForBothKinds(_, _, _, _, _)
BuildLayers_OneDictForBothKinds(b_idx, n_layers, names, overrides, acc) ==
    IF b_idx >= n_layers THEN acc
    ELSE IF b_idx + 1 > Len(names)
      THEN [acc EXCEPT !.status = "IndexError", !.failedAt = b_idx]
    ELSE
      LET module_name == names[b_idx + 1]
          plain == [name |-> module_name, reuse_kv_layer_idx |-> None,
                    reuse_kv_x_layer_idx |-> None]
      IN
      IF module_name = "default"
        THEN BuildLayers_OneDictForBothKinds(b_idx + 1, n_layers, names, overrides,
                         [acc EXCEPT !.list = Append(@, plain)])
      ELSE
        LET attn == overrides[module_name] IN
        IF "reuse_kv_layer_idx" \in attn.has /\ "reuse_kv_x_layer_idx" \in attn.has
          THEN [acc EXCEPT !.status = "ValueError", !.failedAt = b_idx]
        ELSE IF attn.has = {}
          THEN BuildLayers_OneDictForBothKinds(b_idx + 1, n_layers, names, overrides,
                           [acc EXCEPT !.list = Append(@, plain)])
        ELSE
          LET reuse_type == IF "reuse_kv_layer_idx" \in attn.has
                              THEN "reuse_kv_layer_idx" ELSE "reuse_kv_x_layer_idx"
              r == _resolve_reuse_state_layer_idx(
                       b_idx, RelOf(attn, reuse_type), acc.dicts["reuse_kv_layer_idx"])
          IN
          IF r.err
            THEN [acc EXCEPT !.status = "ValueError", !.failedAt = b_idx]
            ELSE BuildLayers_OneDictForBothKinds(b_idx + 1, n_layers, names, overrides,
                   [acc EXCEPT
                      !.list = Append(@,
                          IF reuse_type = "reuse_kv_layer_idx"
                            THEN [plain EXCEPT !.reuse_kv_layer_idx = r.idx]
                            ELSE [plain EXCEPT !.reuse_kv_x_layer_idx = r.idx]),
                      !.dicts["reuse_kv_layer_idx"] = r.dict,
                      !.cache[reuse_type] = @ \cup {r.idx}])

\* A faulty loop: the layer found is not added to self.state_cache_layers.
RECURSIVE BuildLayers_NoCacheRegistration(_, _, _, _, _)
BuildLayers_NoCacheRegistration(b_idx, n_layers, names, overrides, acc) ==
    IF b_idx >= n_layers THEN acc
    ELSE IF b_idx + 1 > Len(names)
      THEN [acc EXCEPT !.status = "IndexError", !.failedAt = b_idx]
    ELSE
      LET module_name == names[b_idx + 1]
          plain == [name |-> module_name, reuse_kv_layer_idx |-> None,
                    reuse_kv_x_layer_idx |-> None]
      IN
      IF module_name = "default"
        THEN BuildLayers_NoCacheRegistration(b_idx + 1, n_layers, names, overrides,
                         [acc EXCEPT !.list = Append(@, plain)])
      ELSE
        LET attn == overrides[module_name] IN
        IF "reuse_kv_layer_idx" \in attn.has /\ "reuse_kv_x_layer_idx" \in attn.has
          THEN [acc EXCEPT !.status = "ValueError", !.failedAt = b_idx]
        ELSE IF attn.has = {}
          THEN BuildLayers_NoCacheRegistration(b_idx + 1, n_layers, names, overrides,
                           [acc EXCEPT !.list = Append(@, plain)])
        ELSE
          LET reuse_type == IF "reuse_kv_layer_idx" \in attn.has
                              THEN "reuse_kv_layer_idx" ELSE "reuse_kv_x_layer_idx"
              r == _resolve_reuse_state_layer_idx(
                       b_idx, RelOf(attn, reuse_type), acc.dicts[reuse_type])
          IN
          IF r.err
            THEN [acc EXCEPT !.status = "ValueError", !.failedAt = b_idx]
            ELSE BuildLayers_NoCacheRegistration(b_idx + 1, n_layers, names, overrides,
                   [acc EXCEPT
                      !.list = Append(@,
                          IF reuse_type = "reuse_kv_layer_idx"
                            THEN [plain EXCEPT !.reuse_kv_layer_idx = r.idx]
                            ELSE [plain EXCEPT !.reuse_kv_x_layer_idx = r.idx]),
                      !.dicts[reuse_type] = r.dict])

\* The loop of _get_override_block_args_list over layers b_idx..n_layers-1
\* (0-based, as in the code). acc carries new_block_args_list, the two
\* reuse_state_layer_idx_dicts and self.state_cache_layers.
RECURSIVE BuildLayers(_, _, _, _, _)
BuildLayers(b_idx, n_layers, names, overrides, acc) ==
    IF b_idx >= n_layers THEN acc
    ELSE IF b_idx + 1 > Len(names)
      THEN [acc EXCEPT !.status = "IndexError", !.failedAt = b_idx]
    ELSE
      LET module_name == names[b_idx + 1]
          plain == [name |-> module_name, reuse_kv_layer_idx |-> None,
                    reuse_kv_x_layer_idx |-> None]
      IN
      IF module_name = "default"
        THEN BuildLayers(b_idx + 1, n_layers, names, overrides,
                         [acc EXCEPT !.list = Append(@, plain)])
      ELSE
        LET attn == overrides[module_name] IN
        IF "reuse_kv_layer_idx" \in attn.has /\ "reuse_kv_x_layer_idx" \in attn.has
          THEN [acc EXCEPT !.status = "ValueError", !.failedAt = b_idx]
        ELSE IF attn.has = {}
          THEN BuildLayers(b_idx + 1, n_layers, names, overrides,
                           [acc EXCEPT !.list = Append(@, plain)])
        ELSE
          LET reuse_type == IF "reuse_kv_layer_idx" \in attn.has
                              THEN "reuse_kv_layer_idx" ELSE "reuse_kv_x_layer_idx"
              r == _resolve_reuse_state_layer_idx(
                       b_idx, RelOf(attn, reuse_type), acc.dicts[reuse_type])
          IN
          IF r.err
            THEN [acc EXCEPT !.status = "ValueError", !.failedAt = b_idx]
            ELSE BuildLayers(b_idx + 1, n_layers, names, overrides,
                   [acc EXCEPT
                      !.list = Append(@,
                          IF reuse_type = "reuse_kv_layer_idx"
                            THEN [plain EXCEPT !.reuse_kv_layer_idx = r.idx]
                            ELSE [plain EXCEPT !.reuse_kv_x_layer_idx = r.idx]),
                      !.dicts[reuse_type] = r.dict,
                      !.cache[reuse_type] = @ \cup {r.idx}])

\* Outcome of a failed construction.
Failed(kind, at) ==
    [status |-> kind, failedAt |-> at, list |-> <<>>,
     dicts |-> [t \in ReuseTypes |-> EmptyDict],
     cache |-> [t \in ReuseTypes |-> {}]]

\* The expansion `_get_modules_order_expanded(order) * repeat` of a config.
ExpandedOf(cfg) ==
    LET e == _get_modules_order_expanded(cfg.order)
    IN  [err |-> e.err, names |-> Repeat(e.names, cfg.repeat)]

\* A faulty _get_override_block_args_list: the comparison of the expanded length
\* with n_layers is missing.
GetOverrideBlockArgsList_NoLengthCheck(cfg) ==
    LET e == ExpandedOf(cfg) IN
    IF e.err THEN Failed("ValueError", None)
    ELSE BuildLayers(0, cfg.n_layers, e.names, cfg.overrides,
                     [status |-> "ok", failedAt |-> None, list |-> <<>>,
                      dicts |-> [t \in ReuseTypes |-> EmptyDict],
                      cache |-> [t \in ReuseTypes |-> {}]])

\* MPTModel._get_override_block_args_list.
_get_override_block_args_list(cfg) ==
    LET e == ExpandedOf(cfg) IN
    IF e.err THEN Failed("ValueError", None)
    ELSE IF Len(e.names) # cfg.n_layers THEN Failed("ValueError", None)
    ELSE BuildLayers(0, cfg.n_layers, e.names, cfg.overrides,
                     [status |-> "ok", failedAt |-> None, list |-> <<>>,
                      dicts |-> [t \in ReuseTypes |-> EmptyDict],
                      cache |-> [t \in ReuseTypes |-> {}]])

BlockConfigs(maxLayers) ==
    { [n_layers |-> n, order |-> o, repeat |-> rep, overrides |-> Overrides(rkv, rkvx)] :
        n \in 1..maxLayers, o \in Orders, rep \in 1..MaxRepeat,
        rkv \in RelIdx, rkvx \in RelIdx }

\* MPTModel.construct_blocks with config.block_overrides set.
ConstructBlocks ==
    /\ blockRes = NoCall
    /\ blockRes' = _get_override_block_args_list(blockCfg)
    /\ UNCHANGED blockCfg
    /\ UNCHANGED topoOthers


\* ---- what the claims speak of, stated without the builder's own operators

\* Every item of an order names exactly one of 'name' and 'order'.
RECURSIVE WellFormedOrder(_)
WellFormedOrder(order) ==
    \A i \in 1..Len(order) :
        /\ order[i].hasName # order[i].hasOrder
        /\ order[i].hasOrder => WellFormedOrder(order[i].order)

\* Length of the depth-first expansion of an order, by arithmetic.
RECURSIVE OrderLen(_)
OrderLen(order) ==
    IF order = <<>> THEN 0
    ELSE (IF Head(order).hasName THEN 1 ELSE OrderLen(Head(order).order))
             * Head(order).repeat + OrderLen(Tail(order))

Built == blockRes # NoCall
BuiltOk == Built /\ blockRes.status = "ok"

\* The relative offset the override of layer b (0-based) gives, None when the
\* layer is 'default'.
LayerRel(names, b) ==
    IF names[b + 1] = "kv" THEN blockCfg.overrides.kv.reuse_kv_layer_idx
    ELSE IF names[b + 1] = "kvx" THEN blockCfg.overrides.kvx.reuse_kv_x_layer_idx
    ELSE None

\* The absolute index stored for layer b (0-based), None when it reuses nothing.
LayerTarget(b) ==
    IF blockRes.list[b + 1].reuse_kv_layer_idx # None
      THEN blockRes.list[b + 1].reuse_kv_layer_idx
      ELSE blockRes.list[b + 1].reuse_kv_x_layer_idx

\* C1: _get_override_block_args_list returns a list of exactly n_layers entries
\* or fails; it raises ValueError whenever the depth-first expansion of `order`
\* times the top-level repeat has a length other than n_layers.
C1_ListLengthOrValueError ==
    Built =>
      /\ blockRes.status = "ok" => Len(blockRes.list) = blockCfg.n_layers
      /\ ( WellFormedOrder(blockCfg.order)
           /\ OrderLen(blockCfg.order) * blockCfg.repeat # blockCfg.n_layers )
            => blockRes.status = "ValueError"

\* C1 witness: a nested order under a top-level repeat is accepted.
C1_Witness ==
    /\ BuiltOk
    /\ blockCfg.repeat > 1
    /\ \E i \in 1..Len(blockCfg.order) : blockCfg.order[i].hasOrder

\* C2: a relative reuse offset r of layer b is rejected with ValueError when
\* r >= 0 or b + r < 0; otherwise the index stored for b is some t with
\* 0 <= t < b, also when it was reached through earlier reuse layers.
C2_ReuseIndexBackward ==
    ( /\ Built
      /\ WellFormedOrder(blockCfg.order)
      /\ OrderLen(blockCfg.order) * blockCfg.repeat = blockCfg.n_layers )
    => LET names == ExpandedOf(blockCfg).names
           n == blockCfg.n_layers
           rejected(b) == LayerRel(names, b) # None
                          /\ (LayerRel(names, b) >= 0 \/ b + LayerRel(names, b) < 0)
       IN  /\ (\E b \in 0..(n - 1) : rejected(b)) <=> blockRes.status = "ValueError"
           /\ (\A b \in 0..(n - 1) : ~rejected(b)) <=> blockRes.status = "ok"
           /\ blockRes.status = "ok" =>
                 \A b \in 0..(n - 1) :
                    LayerRel(names, b) # None =>
                       /\ LayerTarget(b) >= 0
                       /\ LayerTarget(b) < b

\* C2 witness: a layer whose stored index is not b + r: it was resolved through
\* an earlier reuse layer.
C2_Witness ==
    /\ BuiltOk
    /\ \E b \in 0..(blockCfg.n_layers - 1) :
          LET r == LayerRel(ExpandedOf(blockCfg).names, b)
          IN  r # None /\ LayerTarget(b) # b + r


\* The index stored for layer b (0-based) under `kind`, None when there is none.
StoredIdx(b, kind) ==
    IF kind = "reuse_kv_layer_idx" THEN blockRes.list[b + 1].reuse_kv_layer_idx
    ELSE blockRes.list[b + 1].reuse_kv_x_layer_idx

\* The relative offset of `kind` that the override of layer b gives, None when
\* the layer carries no reference of that kind.
KindRel(names, b, kind) ==
    IF kind = "reuse_kv_layer_idx" /\ names[b + 1] = "kv"
      THEN blockCfg.overrides.kv.reuse_kv_layer_idx
    ELSE IF kind = "reuse_kv_x_layer_idx" /\ names[b + 1] = "kvx"
      THEN blockCfg.overrides.kvx.reuse_kv_x_layer_idx
    ELSE None

\* The source of the chain of `kind` that layer b is on: the first layer, going
\* backward along the references, that carries no reference of that kind.
RECURSIVE ChainSource(_, _, _)
ChainSource(names, b, kind) ==
    IF KindRel(names, b, kind) = None THEN b
    ELSE ChainSource(names, b + KindRel(names, b, kind), kind)

\* C15: after _get_override_block_args_list succeeds, every layer of a chain of
\* layers that reuse state of one kind holds the index of the chain's source:
\* the index stored for a reusing layer is never the index of a layer that
\* itself carries a reuse reference of that kind, whatever the length of the
\* chain and also when a repeated block produces it.
C15_ChainsAreFlattened ==
    BuiltOk =>
        LET names == ExpandedOf(blockCfg).names IN
        \A kind \in ReuseTypes, b \in 0..(blockCfg.n_layers - 1) :
            StoredIdx(b, kind) # None =>
                /\ StoredIdx(StoredIdx(b, kind), kind) = None
                /\ StoredIdx(b, kind) = ChainSource(names, b, kind)

\* C15 witness: a chain of three layers of one kind that a repeated block
\* produces; the last holds the index of the layer before the first.
C15_Witness ==
    /\ BuiltOk
    /\ \E i \in 1..Len(blockCfg.order) : blockCfg.order[i].repeat > 1
    /\ \E kind \in ReuseTypes, b \in 3..(blockCfg.n_layers - 1) :
          /\ \A m \in (b - 2)..b : StoredIdx(m, kind) # None
          /\ StoredIdx(b, kind) = b - 3
          /\ StoredIdx(b - 2, kind) = b - 3


\* Layer b refers through `kind` to a layer that itself reuses state through
\* the other kind.
MixedReference(names, b, kind) ==
    /\ KindRel(names, b, kind) # None
    /\ \E other \in ReuseTypes \ {kind} :
          KindRel(names, b + KindRel(names, b, kind), other) # None

\* C26 as stated: the target stored for a layer with a mixed reference is a
\* layer that reuses no state of either kind.
C26_MixedChainReachesUltimateSource ==
    BuiltOk =>
        LET names == ExpandedOf(blockCfg).names IN
        \A kind \in ReuseTypes, b \in 0..(blockCfg.n_layers - 1) :
            MixedReference(names, b, kind) =>
                \A k \in ReuseTypes : StoredIdx(StoredIdx(b, kind), k) = None

\* C26 amended: the target stored for a layer with a mixed reference is the
\* layer referred to itself, which carries no reference of b's kind and does
\* reuse state of the other kind: chains are followed within one kind only.
C26_MixedReferenceStopsAtOtherKind ==
    BuiltOk =>
        LET names == ExpandedOf(blockCfg).names IN
        \A kind \in ReuseTypes, b \in 0..(blockCfg.n_layers - 1) :
            MixedReference(names, b, kind) =>
                LET t == StoredIdx(b, kind) IN
                /\ t = b + KindRel(names, b, kind)
                /\ StoredIdx(t, kind) = None
                /\ \E other \in ReuseTypes \ {kind} :
                      /\ StoredIdx(t, other) # None
                      /\ StoredIdx(t, other) < t

\* C26 witness: a layer that reuses hidden state from a layer that reuses the
\* key/value of a third, and a layer with the kinds the other way round.
C26_Witness ==
    /\ BuiltOk
    /\ \E kind \in ReuseTypes, b \in 0..(blockCfg.n_layers - 1) :
          /\ kind = "reuse_kv_x_layer_idx"
          /\ MixedReference(ExpandedOf(blockCfg).names, b, kind)
    /\ \E kind \in ReuseTypes, b \in 0..(blockCfg.n_layers - 1) :
          /\ kind = "reuse_kv_layer_idx"
          /\ MixedReference(ExpandedOf(blockCfg).names, b, kind)
(***************************************************************************)
(*                     MPTModel._override_block_args                       *)
(***************************************************************************)

\* Bound of the scalar values (1..MaxScalar) a block argument may take.
MaxScalar == 2

\* A Python value: its type, the number it holds (0 for a dict and for None)
\* and its items (empty unless it is a dict).
Scalar(type, v) == [type |-> type, val |-> v, items |-> EmptyDict]
DictValue(d) == [type |-> "dict", val |-> 0, items |-> d]

\* The dicts with keys among `keys`, the value of key k drawn from values[k].
DictsOver(keys, values) ==
    UNION { [present -> UNION {values[k] : k \in present}] : present \in SUBSET keys }

\* The dicts of an attn_config-like entry: 'p' an int or a str, 'q' an int.
InnerDicts ==
    { d \in DictsOver({"p", "q"},
                      [k \in {"p", "q"} |->
                         {Scalar("int", v) : v \in 1..MaxScalar} \cup {Scalar("str", 1)}]) :
        "q" \in DOMAIN d => d["q"] = Scalar("int", 1) }

\* block_args and override_config: 'a' a scalar, 'd' a scalar or a dict.
ArgDicts ==
    { d \in DictsOver({"a", "d"},
                      [k \in {"a", "d"} |->
                         {Scalar("int", v) : v \in 1..MaxScalar} \cup {Scalar("str", 1)}
                            \cup {DictValue(i) : i \in InnerDicts}]) :
        /\ "a" \in DOMAIN d => d["a"].type # "dict"
        /\ "d" \in DOMAIN d => d["d"] \in {Scalar("int", 1)} \cup {DictValue(i) : i \in InnerDicts} }

\* allowed_block_overrides: a nested dict whose leaves are None.
AllowedDicts ==
    DictsOver({"a", "d"},
              [k \in {"a", "d"} |->
                 IF k = "a" THEN {Scalar("NoneType", 0)}
                 ELSE {DictValue([p |-> Scalar("NoneType", 0)]),
                       DictValue([p |-> Scalar("NoneType", 0), q |-> Scalar("NoneType", 0)])}])

\* The outcome of a call that raises.
Raised(err) == [err |-> err, ret |-> EmptyDict]

\* A faulty _override_block_args: the values of the common keys are not
\* overwritten, the result is override_config | block_args.
RECURSIVE OverrideBlockArgs_BaseWins(_, _, _)
OverrideBlockArgs_BaseWins(block_args, override_config, allowed_block_overrides) ==
    IF DOMAIN override_config \ DOMAIN allowed_block_overrides # {} THEN {Raised("KeyError")}
    ELSE { [err |-> "none",
            ret |-> [k \in DOMAIN override_config \cup DOMAIN block_args |->
                       IF k \in DOMAIN block_args THEN block_args[k]
                       ELSE override_config[k]]] }

\* MPTModel._override_block_args: the set of the outcomes it can have. The loop
\* goes over a set of keys, so that of several failing keys any may come first.
RECURSIVE _override_block_args(_, _, _)
_override_block_args(block_args, override_config, allowed_block_overrides) ==
    IF DOMAIN override_config \ DOMAIN allowed_block_overrides # {} THEN {Raised("KeyError")}
    ELSE
      LET common_keys == DOMAIN override_config \cap DOMAIN block_args
          \* what the body of the loop does for key k
          body(k) ==
              IF override_config[k].type # block_args[k].type THEN {Raised("ValueError")}
              ELSE IF override_config[k].type = "dict"
                THEN { IF r.err = "none" THEN [err |-> "none", ret |-> DictValue(r.ret)]
                       ELSE r :
                         r \in _override_block_args(block_args[k].items,
                                                    override_config[k].items,
                                                    allowed_block_overrides[k].items) }
              ELSE {[err |-> "none", ret |-> override_config[k]]}
          raised == UNION { {r \in body(k) : r.err # "none"} : k \in common_keys }
      IN  IF raised # {} THEN raised
          ELSE { [err |-> "none",
                  ret |-> [k \in DOMAIN override_config \cup DOMAIN block_args |->
                             IF k \in common_keys
                               THEN (CHOOSE r \in body(k) : TRUE).ret
                             ELSE IF k \in DOMAIN block_args THEN block_args[k]
                             ELSE override_config[k]]] }

\* One call of _override_block_args; block_args as it is after the call is
\* recorded (the function writes to a new dict only).
CallOverrideBlockArgs ==
    /\ mergeCall.op = "args"
    /\ \E r \in _override_block_args(mergeCall.block_args, mergeCall.override_config,
                                     mergeCall.allowed_block_overrides) :
         mergeCall' = [op |-> "ret", block_args |-> mergeCall.block_args,
                       override_config |-> mergeCall.override_config,
                       allowed_block_overrides |-> mergeCall.allowed_block_overrides,
                       block_args_after |-> mergeCall.block_args,
                       err |-> r.err, ret |-> r.ret]
    /\ UNCHANGED mergeOthers

\* ---- what C14 speaks of

\* override has a key that allowed lacks, at a level that is merged.
RECURSIVE Unpermitted(_, _, _)
Unpermitted(base, override, allowed) ==
    \/ \E k \in DOMAIN override : k \notin DOMAIN allowed
    \/ \E k \in DOMAIN override \cap DOMAIN base :
          /\ k \in DOMAIN allowed
          /\ base[k].type = "dict" /\ override[k].type = "dict"
          /\ Unpermitted(base[k].items, override[k].items, allowed[k].items)

\* A key present in both has values of different types, at a level that is merged.
RECURSIVE TypesDiffer(_, _)
TypesDiffer(base, override) ==
    \E k \in DOMAIN override \cap DOMAIN base :
       \/ base[k].type # override[k].type
       \/ /\ base[k].type = "dict"
          /\ TypesDiffer(base[k].items, override[k].items)

\* The merge the claim describes.
RECURSIVE Merged(_, _)
Merged(base, override) ==
    [k \in DOMAIN base \cup DOMAIN override |->
       IF k \notin DOMAIN override THEN base[k]
       ELSE IF k \notin DOMAIN base THEN override[k]
       ELSE IF override[k].type = "dict"
         THEN DictValue(Merged(base[k].items, override[k].items))
       ELSE override[k]]

\* C14: _override_block_args(base, override, allowed) raises KeyError when
\* override has a key that allowed lacks (at a level that is merged), ValueError
\* when a key of both has values of different types (one of the two when both
\* are the case), and otherwise returns the dict over the union of the keys in
\* which a key of base alone keeps its value, a key of override alone and a
\* non-dict key of both take the override value and a dict key of both is the
\* merge of the two dicts; base is not modified.
C14_OverrideMerge ==
    mergeCall.op = "ret" =>
        LET base == mergeCall.block_args
            override == mergeCall.override_config
            unpermitted == Unpermitted(base, override, mergeCall.allowed_block_overrides)
            differ == TypesDiffer(base, override)
        IN  /\ (unpermitted /\ ~differ) => mergeCall.err = "KeyError"
            /\ (differ /\ ~unpermitted) => mergeCall.err = "ValueError"
            /\ (unpermitted /\ differ) => mergeCall.err \in {"KeyError", "ValueError"}
            /\ (~unpermitted /\ ~differ) =>
                  /\ mergeCall.err = "none"
                  /\ mergeCall.ret = Merged(base, override)
            /\ mergeCall.block_args_after = base

\* C14 witness: a merge that overwrites a scalar, merges a dict of both into a
\* dict with keys of either and keeps a key of base alone.
C14_Witness ==
    /\ mergeCall.op = "ret"
    /\ mergeCall.err = "none"
    /\ mergeCall.block_args = [a |-> Scalar("int", 1), d |-> DictValue([p |-> Scalar("int", 1)])]
    /\ mergeCall.override_config = [d |-> DictValue([p |-> Scalar("int", 2), q |-> Scalar("int", 1)])]
    /\ mergeCall.ret = [a |-> Scalar("int", 1),
                        d |-> DictValue([p |-> Scalar("int", 2), q |-> Scalar("int", 1)])]

\* C14 witness: a key that is not allowed inside a dict that is merged.
C14_WitnessNestedKeyError ==
    /\ mergeCall.op = "ret"
    /\ mergeCall.err = "KeyError"
    /\ DOMAIN mergeCall.override_config \subseteq DOMAIN mergeCall.allowed_block_overrides

(***************************************************************************)
(*                 ConcatTokensFromFilesDataset.__iter__                   *)
(***************************************************************************)

\* Bounds: the window length, the tokens of one tokenized chunk, and the
\* length of the whole token stream of a run.
MaxWindow      == 3
MaxChunkTokens == 2
MaxStream      == 6

\* tokenizer.bos_token_id, and the id the EOS text tokenizes to.
BosId == 0
EosId == 1

\* The ids a tokenized chunk holds besides a leading BOS: fresh ids, so that
\* every token of the stream can be told from every other.
PlainTokens(n) == [i \in 1..n |-> 2 + Len(stream) + i]

\* encoded['input_ids'] of a chunk: an optional leading BOS, then n text tokens.
ChunkIds(withBos, n) == (IF withBos THEN <<BosId>> ELSE <<>>) \o PlainTokens(n)

ConcatConfigs ==
    [ max_length  : 1..MaxWindow,
      should_wrap : BOOLEAN,
      bos_tokens  : {<<>>, <<BosId>>},
      eos_tokens  : {<<>>, <<EosId>>} ]

\* A faulty loop: a buffer of exactly max_length tokens is not cut.
RECURSIVE YieldFullWindows_StrictlyLonger(_, _, _, _)
YieldFullWindows_StrictlyLonger(buf, out, max_length, should_wrap) ==
    IF Len(buf) > max_length
      THEN YieldFullWindows_StrictlyLonger(
               IF should_wrap THEN SubSeq(buf, max_length + 1, Len(buf)) ELSE <<>>,
               Append(out, SubSeq(buf, 1, max_length)), max_length, should_wrap)
      ELSE [buffer |-> buf, yielded |-> out]

\* A faulty loop: the rest of the buffer is kept when should_wrap is false too.
RECURSIVE YieldFullWindows_AlwaysWraps(_, _, _, _)
YieldFullWindows_AlwaysWraps(buf, out, max_length, should_wrap) ==
    IF Len(buf) >= max_length
      THEN YieldFullWindows_AlwaysWraps(
               SubSeq(buf, max_length + 1, Len(buf)),
               Append(out, SubSeq(buf, 1, max_length)), max_length, should_wrap)
      ELSE [buffer |-> buf, yielded |-> out]

\* `while len(buffer) >= self.max_length:` cut a window off the front and yield
\* it, keep the rest when wrapping and nothing otherwise.
RECURSIVE YieldFullWindows(_, _, _, _)
YieldFullWindows(buf, out, max_length, should_wrap) ==
    IF Len(buf) >= max_length
      THEN YieldFullWindows(
               IF should_wrap THEN SubSeq(buf, max_length + 1, Len(buf)) ELSE <<>>,
               Append(out, SubSeq(buf, 1, max_length)), max_length, should_wrap)
      ELSE [buffer |-> buf, yielded |-> out]

\* `for file in self.files: with open(file) as f: buffer += self.bos_tokens`
OpenFile ==
    /\ cpc = "between_files"
    /\ Len(stream) + Len(ccfg.bos_tokens) <= MaxStream
    /\ buffer' = buffer \o ccfg.bos_tokens
    /\ stream' = stream \o ccfg.bos_tokens
    /\ first_chunk' = TRUE
    /\ cpc' = "in_file"
    /\ UNCHANGED <<ccfg, yielded>>
    /\ UNCHANGED concatOthers

\* One pass of the chunk loop: tokenize, drop the BOS of a later chunk, extend
\* the buffer, yield every full window.
ReadChunk(withBos, n) ==
    /\ cpc = "in_file"
    /\ withBos \/ n > 0
    /\ LET encoded == ChunkIds(withBos, n)
           iids == IF ~first_chunk /\ Head(encoded) = BosId
                     THEN Tail(encoded) ELSE encoded
           r == YieldFullWindows(buffer \o iids, yielded,
                                 ccfg.max_length, ccfg.should_wrap)
       IN  /\ Len(stream) + Len(iids) <= MaxStream
           /\ buffer' = r.buffer
           /\ yielded' = r.yielded
           /\ stream' = stream \o iids
    /\ first_chunk' = FALSE
    /\ UNCHANGED <<ccfg, cpc>>
    /\ UNCHANGED concatOthers

\* f.read raises UnicodeDecodeError: CannotUnicodeDecodeFile ends the iteration.
DecodeError ==
    /\ cpc = "in_file"
    /\ cpc' = "CannotUnicodeDecodeFile"
    /\ UNCHANGED <<ccfg, buffer, first_chunk, yielded, stream>>
    /\ UNCHANGED concatOthers

\* End of the file: `buffer += self.eos_tokens`.
CloseFile ==
    /\ cpc = "in_file"
    /\ Len(stream) + Len(ccfg.eos_tokens) <= MaxStream
    /\ buffer' = buffer \o ccfg.eos_tokens
    /\ stream' = stream \o ccfg.eos_tokens
    /\ cpc' = "between_files"
    /\ UNCHANGED <<ccfg, first_chunk, yielded>>
    /\ UNCHANGED concatOthers

\* After the last file: the final `while len(buffer) >= self.max_length` loop.
FinishIter ==
    /\ cpc = "between_files"
    /\ LET r == YieldFullWindows(buffer, yielded, ccfg.max_length, ccfg.should_wrap)
       IN  buffer' = r.buffer /\ yielded' = r.yielded
    /\ cpc' = "done"
    /\ UNCHANGED <<ccfg, first_chunk, stream>>
    /\ UNCHANGED concatOthers

\* ---- claims

\* ceil(a / b) for b > 0.
CeilDiv(a, b) == (a + b - 1) \div b

\* C6 as stated: with wrapping, a stream of N tokens gives ceil(N/L) windows,
\* all of length L but the last, which holds the N mod L remaining tokens.
C6_Original ==
    (cpc = "done" /\ ccfg.should_wrap) =>
        LET N == Len(stream)
            L == ccfg.max_length
        IN  /\ Len(yielded) = CeilDiv(N, L)
            /\ \A i \in 1..Len(yielded) :
                 Len(yielded[i]) = IF i = Len(yielded) /\ N % L # 0 THEN N % L ELSE L

\* C6 amended: with wrapping, a stream of N tokens gives floor(N/L) windows, every
\* one of length L; the N mod L remaining tokens stay in the buffer, not yielded.
C6_FullWindowsOnly ==
    (cpc = "done" /\ ccfg.should_wrap) =>
        LET N == Len(stream)
            L == ccfg.max_length
        IN  /\ Len(yielded) = N \div L
            /\ \A i \in 1..Len(yielded) : Len(yielded[i]) = L
            /\ Len(buffer) = N % L
            /\ buffer = SubSeq(stream, N - (N % L) + 1, N)

\* C6 witness: two files, an EOS token after each, a remainder at the end that
\* is shorter than the window.
C6_Witness ==
    /\ cpc = "done" /\ ccfg.should_wrap
    /\ ccfg.bos_tokens = <<>> /\ ccfg.eos_tokens = <<EosId>>
    /\ Len(SelectSeq(stream, LAMBDA t : t = EosId)) = 2
    /\ Len(yielded) >= 2
    /\ Len(stream) % ccfg.max_length # 0


\* The tokens a step adds to the stream, and the buffer they are appended to.
AddedTokens == SubSeq(stream', Len(stream) + 1, Len(stream'))

\* What a step of the iteration leaves: windows of max_length tokens, emitted
\* ones kept; at the end a buffer shorter than a window, which is in no window;
\* with wrapping, the windows and then the buffer are the stream so far; with
\* no_wrap, a step that cuts a window cuts it off the front of the buffer
\* and drops the rest of the buffer.
WindowsAfterStep ==
    LET L == ccfg.max_length
        n == Len(yielded)
    IN  /\ Len(yielded') >= n
        /\ SubSeq(yielded', 1, n) = yielded
        /\ \A i \in 1..Len(yielded') : Len(yielded'[i]) = L
        /\ cpc' = "done" => Len(buffer') < L
        /\ ccfg.should_wrap => Flatten(yielded') \o buffer' = stream'
        /\ (~ccfg.should_wrap /\ Len(yielded') > n) =>
              /\ Len(yielded') = n + 1
              /\ yielded'[n + 1] = SubSeq(buffer \o AddedTokens, 1, L)
              /\ buffer' = <<>>

\* C30: every emitted window has exactly max_length tokens; the tokens left in
\* the buffer at the end, fewer than max_length, are not emitted; with wrapping
\* the windows in order are a prefix of the token stream; with no_wrap the
\* tokens still buffered after a window is cut are discarded.
C30_WindowsOfExactLength == [][WindowsAfterStep]_vars

\* C30 witness: without wrapping, two windows were cut, tokens were dropped
\* after a cut, and a remainder shorter than a window is left at the end.
C30_Witness ==
    /\ cpc = "done" /\ ~ccfg.should_wrap
    /\ ccfg.max_length > 1
    /\ Len(yielded) >= 2
    /\ buffer # <<>>
    /\ Len(Flatten(yielded)) + Len(buffer) < Len(stream)
(***************************************************************************)
(*                 get_targets, compute_loss_from_logits                   *)
(***************************************************************************)

\* Bounds: rows and positions of a labels tensor.
MaxBatch  == 2
MaxTokens == 2

CROSS_ENTROPY_IGNORE_INDEX == -100

LabelValues == {CROSS_ENTROPY_IGNORE_INDEX, 0, 1}

\* A labels tensor of shape (B, T): a sequence of B rows of T labels.
LabelTensors ==
    UNION { [1..B -> [1..T -> LabelValues]] : B \in 1..MaxBatch, T \in 1..MaxTokens }

\* tensor.view(-1): the rows one after the other.
View1D(t) == Flatten(t)

\* torch.roll(labels, shifts=-1) without dims: the tensor is flattened, rolled
\* by one to the left and restored to its shape.
RollLeft(labels) ==
    LET B == Len(labels)
        T == Len(labels[1])
        flat == View1D(labels)
        n == B * T
    IN  [b \in 1..B |-> [t \in 1..T |-> flat[(((b - 1) * T + t) % n) + 1]]]

\* A faulty get_targets: the last column keeps what the roll put there.
get_targets_KeepsRolledLastColumn(labels) == RollLeft(labels)

\* get_targets: roll, then `targets[:, -1] = CROSS_ENTROPY_IGNORE_INDEX`.
get_targets(labels) ==
    LET rolled == RollLeft(labels)
        T == Len(labels[1])
    IN  [b \in 1..Len(labels) |->
            [t \in 1..T |-> IF t = T THEN CROSS_ENTROPY_IGNORE_INDEX ELSE rolled[b][t]]]

\* loss_fn(logits.view(-1, V), targets.view(-1)) with reduction='none' and
\* ignore_index: 0 at an ignored target, else the cross entropy of the logits
\* at that position, here a positive weight that differs between positions.
loss_fn(targets1d) ==
    [k \in 1..Len(targets1d) |->
        IF targets1d[k] = CROSS_ENTROPY_IGNORE_INDEX THEN 0 ELSE 2 * k + targets1d[k]]

\* (targets != ignore_index).sum()
RECURSIVE CountNotIgnored(_)
CountNotIgnored(s) ==
    IF s = <<>> THEN 0
    ELSE (IF Head(s) # CROSS_ENTROPY_IGNORE_INDEX THEN 1 ELSE 0) + CountNotIgnored(Tail(s))

\* tensor / tensor: a quotient kept as numerator and denominator; a zero
\* denominator gives nan or inf.
Divide(num, den) ==
    IF den = 0 THEN [kind |-> "nan", num |-> num, den |-> den]
    ELSE [kind |-> "mean", num |-> num, den |-> den]

\* A faulty compute_loss_from_logits: the all-ignored case is not told apart.
ComputeLoss_AlwaysDivide(labels, shift_labels) ==
    LET targets == IF shift_labels THEN get_targets(labels) ELSE labels
        losses == loss_fn(View1D(targets))
    IN  [targets |-> targets, losses |-> losses,
         loss |-> Divide(SeqSum(losses), CountNotIgnored(View1D(targets)))]

\* compute_loss_from_logits.
compute_loss_from_logits(labels, shift_labels) ==
    LET targets == IF shift_labels THEN get_targets(labels) ELSE labels
        flat == View1D(targets)
        losses == loss_fn(flat)
    IN  [targets |-> targets, losses |-> losses,
         loss |-> IF \A k \in 1..Len(flat) : flat[k] = CROSS_ENTROPY_IGNORE_INDEX
                    THEN [kind |-> "sum", num |-> SeqSum(losses), den |-> 1]
                    ELSE Divide(SeqSum(losses), CountNotIgnored(flat))]

\* ComposerMPTCausalLM.loss: compute_loss_from_logits on the batch's labels.
ComputeLoss ==
    /\ lossCall.op = "args"
    /\ lossCall' = [op |-> "ret", labels |-> lossCall.labels,
                    shift_labels |-> lossCall.shift_labels,
                    ret |-> compute_loss_from_logits(lossCall.labels,
                                                     lossCall.shift_labels)]
    /\ UNCHANGED lossOthers

\* ---- claims

LossReturned == lossCall.op = "ret"

\* The positions (row, column) of the targets that are not ignored.
CountedPositions ==
    LET tg == lossCall.ret.targets
    IN  { p \in (1..Len(tg)) \X (1..Len(tg[1])) :
            tg[p[1]][p[2]] # CROSS_ENTROPY_IGNORE_INDEX }

\* C10: compute_loss_from_logits never divides by zero: with every target
\* ignored it returns the plain sum of the per-token losses, and otherwise that
\* sum divided by the number of targets that are not ignored, which is >= 1.
C10_NoDivisionByZero ==
    LossReturned =>
        LET r == lossCall.ret
            total == SeqSum(r.losses)
        IN  /\ r.loss.kind # "nan"
            /\ r.loss.den >= 1
            /\ CountedPositions = {} => r.loss = [kind |-> "sum", num |-> total, den |-> 1]
            /\ CountedPositions # {} =>
                 r.loss = [kind |-> "mean", num |-> total,
                           den |-> Cardinality(CountedPositions)]

\* C10 witness: labels that are not all ignored whose shifted targets are.
C10_Witness ==
    /\ LossReturned
    /\ lossCall.shift_labels
    /\ \E b \in 1..Len(lossCall.labels) : \E t \in 1..Len(lossCall.labels[b]) :
          lossCall.labels[b][t] # CROSS_ENTROPY_IGNORE_INDEX
    /\ CountedPositions = {}
    /\ lossCall.ret.loss.kind = "sum"

\* A call of get_targets: torch.roll allocates the tensor that the assignment
\* to the last column then writes to, so the caller's labels stay as they are.
CallGetTargets ==
    /\ lossCall.op = "args"
    /\ lossCall' = [op |-> "get_targets", labels |-> lossCall.labels,
                    labels_after |-> lossCall.labels,
                    ret |-> get_targets(lossCall.labels)]
    /\ UNCHANGED lossOthers

\* C11: for labels of shape (B, T), get_targets returns targets with
\* targets[b][t] = labels[b][t+1] for t < T-1 and the ignore index at T-1 in
\* every row b, so that no target comes from another row; the labels passed
\* in are unchanged.
C11_TargetsShiftWithinRows ==
    lossCall.op = "get_targets" =>
        LET labels == lossCall.labels
            targets == lossCall.ret
            T == Len(labels[1])
        IN  /\ Len(targets) = Len(labels)
            /\ \A b \in 1..Len(labels) :
                 /\ Len(targets[b]) = T
                 /\ \A t \in 1..(T - 1) : targets[b][t] = labels[b][t + 1]
                 /\ targets[b][T] = CROSS_ENTROPY_IGNORE_INDEX
            /\ lossCall.labels_after = labels

\* C11 witness: two rows, and the first label of the second row is not the
\* ignore index, which a roll over the flattened tensor moves into the first row.
C11_Witness ==
    /\ lossCall.op = "get_targets"
    /\ Len(lossCall.labels) = 2
    /\ Len(lossCall.labels[1]) = 2
    /\ lossCall.labels[2][1] # CROSS_ENTROPY_IGNORE_INDEX
    /\ lossCall.ret[1][2] = CROSS_ENTROPY_IGNORE_INDEX
    /\ lossCall.ret[1][1] = lossCall.labels[1][2]

(***************************************************************************)
(*      apply_sequence_id, gen_sequence_id_info, MPTModel.forward          *)
(***************************************************************************)

\* Bounds: sequence length and heads of an apply_sequence_id call, sequence
\* length of a gen_sequence_id_info call and of a forward call.
MaxBiasSeq == 5
MaxHeads   == 2
MaxSeq     == 3
MaxFwdSeq  == 2

\* torch.finfo(attn_bias.dtype).min
FloatMin == -1000000

\* Tensors are nested sequences: a (B, S) tensor is a sequence of B rows.
Shape2(B, S, values) == [1..B -> [1..S -> values]]

\* The cached bias self.attn_bias of shape (1, H, M, M): zeros, or (with
\* alibi) entries that differ between heads and positions.
AttnBias(alibi, H, M) ==
    << [h \in 1..H |-> [i \in 1..M |-> [j \in 1..M |->
          IF alibi THEN 0 - (100 * h + 10 * i + j) ELSE 0]]] >>

\* Index into a dimension of size n when broadcasting against a larger one.
Bc(n, k) == IF n = 1 THEN 1 ELSE k

\* tensor.masked_fill(mask, value) for a bias (B1, H, Q, K) and a mask
\* (B2, Q2, K2) that stands for (B2, 1, Q2, K2); sizes 1 are broadcast.
masked_fill(bias, mask, value) ==
    LET B1 == Len(bias)          B2 == Len(mask)
        H  == Len(bias[1])
        Q1 == Len(bias[1][1])    Q2 == Len(mask[1])
        K1 == Len(bias[1][1][1]) K2 == Len(mask[1][1])
    IN  [b \in 1..Max(B1, B2) |-> [h \in 1..H |->
          [i \in 1..Max(Q1, Q2) |-> [j \in 1..Max(K1, K2) |->
             IF mask[Bc(B2, b)][Bc(Q2, i)][Bc(K2, j)] THEN value
             ELSE bias[Bc(B1, b)][h][Bc(Q1, i)][Bc(K1, j)]]]]]

\* attn_bias[..., :seq_len, :seq_len]
SliceLast2(bias, seq_len) ==
    [b \in 1..Len(bias) |-> [h \in 1..Len(bias[b]) |->
       [i \in 1..Min(seq_len, Len(bias[b][h])) |->
          SubSeq(bias[b][h][i], 1, Min(seq_len, Len(bias[b][h][i])))]]]

\* A faulty apply_sequence_id: the logical_not is missing, so that tokens of
\* the same document are masked.
apply_sequence_id_NoNot(attn_bias, sequence_id, max_seq_len) ==
    LET seq_len == Len(sequence_id[1])
        same == [b \in 1..Len(sequence_id) |-> [i \in 1..seq_len |->
                   [j \in 1..seq_len |-> sequence_id[b][i] = sequence_id[b][j]]]]
    IN  IF seq_len > max_seq_len THEN [err |-> "ValueError"]
        ELSE [err |-> "none",
              attn_bias |-> masked_fill(SliceLast2(attn_bias, seq_len), same, FloatMin)]

\* apply_sequence_id.
apply_sequence_id(attn_bias, sequence_id, max_seq_len) ==
    LET seq_len == Len(sequence_id[1])
        cannot_attend ==
            [b \in 1..Len(sequence_id) |-> [i \in 1..seq_len |->
               [j \in 1..seq_len |-> ~(sequence_id[b][i] = sequence_id[b][j])]]]
    IN  IF seq_len > max_seq_len THEN [err |-> "ValueError"]
        ELSE [err |-> "none",
              attn_bias |-> masked_fill(SliceLast2(attn_bias, seq_len),
                                        cannot_attend, FloatMin)]

\* A call of apply_sequence_id on the cached bias, as in MPTModel._attn_bias.
CallApplySequenceId ==
    /\ seqCall = NoCall
    /\ \E alibi \in BOOLEAN, H \in 1..MaxHeads, max_seq_len \in 1..(MaxBiasSeq + 1),
          B \in 1..2, S \in 1..MaxBiasSeq :
          \E sequence_id \in Shape2(B, S, {0, 1}) :
             LET attn_bias == AttnBias(alibi, H, max_seq_len)
             IN  seqCall' = [op |-> "apply_sequence_id",
                             attn_bias |-> attn_bias,
                             sequence_id |-> sequence_id,
                             max_seq_len |-> max_seq_len,
                             ret |-> apply_sequence_id(attn_bias, sequence_id,
                                                       max_seq_len)]
    /\ UNCHANGED seqOthers

\* ---- claims

Applied == seqCall.op = "apply_sequence_id"

\* C7: apply_sequence_id returns the bias restricted to the first S query and
\* key positions, with the minimum of the dtype at every (b, h, i, j) whose
\* sequence ids differ and the input entry elsewhere; for S > max_seq_len it
\* raises ValueError.
C7_BlockDiagonalBias ==
    Applied =>
        LET ids == seqCall.sequence_id
            S == Len(ids[1])
            in == seqCall.attn_bias
            out == seqCall.ret
        IN  IF S > seqCall.max_seq_len THEN out.err = "ValueError"
            ELSE /\ out.err = "none"
                 /\ Len(out.attn_bias) = Len(ids)
                 /\ \A b \in 1..Len(ids) :
                      /\ Len(out.attn_bias[b]) = Len(in[1])
                      /\ \A h \in 1..Len(in[1]) :
                           /\ Len(out.attn_bias[b][h]) = S
                           /\ \A i \in 1..S :
                                /\ Len(out.attn_bias[b][h][i]) = S
                                /\ \A j \in 1..S :
                                     out.attn_bias[b][h][i][j] =
                                        IF ids[b][i] # ids[b][j] THEN FloatMin
                                        ELSE in[1][h][i][j]

\* C7 witness: documents of lengths 2 and 3 in one row, bias longer than the row.
C7_Witness ==
    /\ Applied
    /\ seqCall.sequence_id[1] = <<0, 0, 1, 1, 1>>
    /\ seqCall.max_seq_len > 5
    /\ seqCall.ret.err = "none"
    /\ seqCall.ret.attn_bias[1][1][2][3] = FloatMin
    /\ seqCall.ret.attn_bias[1][1][4][3] = seqCall.attn_bias[1][1][4][3]
    /\ seqCall.attn_bias[1][1][4][3] # 0

\* C7 witness of the error: a sequence_id longer than max_seq_len.
C7_WitnessTooLong ==
    /\ Applied
    /\ Len(seqCall.sequence_id[1]) > seqCall.max_seq_len
    /\ seqCall.ret.err = "ValueError"

(***************************************************************************)
(*                         gen_sequence_id_info                            *)
(***************************************************************************)

AttnImpls == {"flash", "torch"}

\* An optional tensor argument or result that is None: tensors have at least
\* one row.
NoTensor == <<>>
BatchSizes == {1, 2}

\* Largest entry of a (B, S) tensor of naturals.
MaxEntry(t) ==
    CHOOSE m \in {t[b][i] : b \in 1..Len(t), i \in 1..Len(t[1])} :
        \A b \in 1..Len(t), i \in 1..Len(t[1]) : t[b][i] <= m

\* attention_mask[:, 0].sum() != attention_mask.shape[0]
LeftPadded(attention_mask) ==
    Cardinality({b \in 1..Len(attention_mask) : attention_mask[b][1]})
        # Len(attention_mask)

\* A faulty _get_attn_mask_in_len_seq_one_hot: left padding is not checked.
GetAttnMaskInLen_NoLeftPaddingCheck(sequence_id, S, attn_uses_sequence_id, attn_impl, attention_mask) ==
    IF sequence_id # NoTensor /\ attn_uses_sequence_id /\ attn_impl = "flash"
         /\ S # Len(sequence_id[1])
      THEN [err |-> "ValueError"]
      ELSE [err |-> "none", attention_mask_in_length |-> NoTensor,
            sequence_id_one_hot |-> NoTensor]

\* _get_attn_mask_in_len_seq_one_hot.  The one-hot tensor has one class for
\* every id from 0 to the largest id of the batch; class c is at index c + 1.
_get_attn_mask_in_len_seq_one_hot(sequence_id, S, attn_uses_sequence_id, attn_impl, attention_mask) ==
    IF sequence_id # NoTensor /\ attn_uses_sequence_id /\ attn_impl = "flash"
    THEN
      IF attention_mask # NoTensor /\ LeftPadded(attention_mask)
        THEN [err |-> "NotImplementedError"]
      ELSE IF S # Len(sequence_id[1]) THEN [err |-> "ValueError"]
      ELSE
        LET B == Len(sequence_id)
            filled == IF attention_mask # NoTensor
                        THEN [b \in 1..B |-> [i \in 1..S |->
                                IF attention_mask[b][i] THEN sequence_id[b][i] ELSE 0]]
                        ELSE sequence_id
            classes == MaxEntry(filled) + 1
            one_hot == [b \in 1..B |-> [i \in 1..S |-> [c \in 1..classes |->
                          IF filled[b][i] = c - 1
                             /\ (attention_mask = NoTensor \/ attention_mask[b][i])
                            THEN 1 ELSE 0]]]
            in_length == [b \in 1..B |-> [c \in 1..classes |->
                            SeqSum([i \in 1..S |-> one_hot[b][i][c]])]]
        IN  [err |-> "none",
             \* F.pad(..., (0, S - classes)): zeros appended, or cut to S.
             attention_mask_in_length |->
                 [b \in 1..B |-> [c \in 1..S |->
                     IF c <= classes THEN in_length[b][c] ELSE 0]],
             sequence_id_one_hot |-> one_hot]
    ELSE [err |-> "none", attention_mask_in_length |-> NoTensor,
          sequence_id_one_hot |-> NoTensor]

\* A faulty gen_sequence_id_info: the positions count from 1.
gen_sequence_id_info_FromOne(sequence_id, S, attn_uses_sequence_id, attn_impl, attention_mask) ==
    LET r == _get_attn_mask_in_len_seq_one_hot(sequence_id, S,
                 attn_uses_sequence_id, attn_impl, attention_mask)
        oh == r.sequence_id_one_hot
    IN  IF r.err # "none" THEN r
        ELSE IF oh # NoTensor THEN
            [err |-> "none",
             attention_mask_in_length |-> r.attention_mask_in_length,
             pos_id_within_seq |->
                [b \in 1..Len(oh) |-> [i \in 1..Len(oh[b]) |->
                    SeqSum([c \in 1..Len(oh[b][i]) |->
                       oh[b][i][c] * SeqSum([k \in 1..i |-> oh[b][k][c]])])]]]
        ELSE [err |-> "none", attention_mask_in_length |-> NoTensor,
              pos_id_within_seq |-> << [i \in 1..S |-> i - 1] >>]

\* gen_sequence_id_info: an error of the helper propagates.
gen_sequence_id_info(sequence_id, S, attn_uses_sequence_id, attn_impl, attention_mask) ==
    LET r == _get_attn_mask_in_len_seq_one_hot(sequence_id, S,
                 attn_uses_sequence_id, attn_impl, attention_mask)
        oh == r.sequence_id_one_hot
        \* sequence_id_one_hot.cumsum(dim=1)
        cumsum(b, i, c) == SeqSum([k \in 1..i |-> oh[b][k][c]])
    IN  IF r.err # "none" THEN r
        ELSE IF oh # NoTensor THEN
            [err |-> "none",
             attention_mask_in_length |-> r.attention_mask_in_length,
             pos_id_within_seq |->
                [b \in 1..Len(oh) |-> [i \in 1..Len(oh[b]) |->
                    SeqSum([c \in 1..Len(oh[b][i]) |->
                       oh[b][i][c] * cumsum(b, i, c)]) - 1]]]
        ELSE [err |-> "none", attention_mask_in_length |-> NoTensor,
              \* torch.arange(S)[None, :]
              pos_id_within_seq |-> << [i \in 1..S |-> i - 1] >>]

\* A call of gen_sequence_id_info.  The ids are those of packed documents;
\* where the mask is False the value of the id is overwritten before use.
CallGenSequenceIdInfo ==
    /\ seqCall = NoCall
    /\ \E B \in BatchSizes, len \in 1..MaxSeq, extra \in 0..1,
          attn_uses_sequence_id \in BOOLEAN, attn_impl \in AttnImpls :
          \E sequence_id \in {NoTensor} \cup Shape2(B, len, {0, 1}),
             attention_mask \in {NoTensor} \cup Shape2(B, len, BOOLEAN) :
             seqCall' = [op |-> "gen_sequence_id_info",
                         sequence_id |-> sequence_id,
                         S |-> len + extra,
                         attn_uses_sequence_id |-> attn_uses_sequence_id,
                         attn_impl |-> attn_impl,
                         attention_mask |-> attention_mask,
                         ret |-> gen_sequence_id_info(sequence_id, len + extra,
                                    attn_uses_sequence_id, attn_impl,
                                    attention_mask)]
    /\ UNCHANGED seqOthers

\* gen_attention_mask_in_length: the first component of what
\* _get_attn_mask_in_len_seq_one_hot returns, or its error.
gen_attention_mask_in_length(sequence_id, S, attn_uses_sequence_id, attn_impl, attention_mask) ==
    LET r == _get_attn_mask_in_len_seq_one_hot(sequence_id, S,
                 attn_uses_sequence_id, attn_impl, attention_mask)
    IN  IF r.err # "none" THEN [err |-> r.err]
        ELSE [err |-> "none", ret |-> r.attention_mask_in_length]

\* A call of gen_attention_mask_in_length on the arguments of the call of
\* gen_sequence_id_info before it.
CallGenAttentionMaskInLength ==
    /\ seqCall.op = "gen_sequence_id_info"
    /\ seqCall' = [seqCall EXCEPT !.op = "gen_attention_mask_in_length"] @@
                  [mask_ret |-> gen_attention_mask_in_length(seqCall.sequence_id,
                                    seqCall.S, seqCall.attn_uses_sequence_id,
                                    seqCall.attn_impl, seqCall.attention_mask)]
    /\ UNCHANGED seqOthers

\* ---- claims

\* gen_sequence_id_info has returned for a supplied sequence_id with
\* sequence-id masking enabled.
SeqInfoReturned ==
    /\ seqCall.op = "gen_sequence_id_info"
    /\ seqCall.attn_uses_sequence_id
    /\ seqCall.sequence_id # NoTensor
    /\ seqCall.ret.err = "none"

\* Token i of row b is not masked out.
Attended(b, i) ==
    seqCall.attention_mask = NoTensor \/ seqCall.attention_mask[b][i]

\* The number of attended tokens of row b before i that are of i's document.
EarlierInDocument(b, i) ==
    Cardinality({k \in 1..(i - 1) :
        Attended(b, k) /\ seqCall.sequence_id[b][k] = seqCall.sequence_id[b][i]})

\* The position ids, of shape (B, S) or (1, S) for every row, count every
\* attended token within its own document from 0.
PositionsWithinDocuments ==
    LET ids == seqCall.sequence_id
        pos == seqCall.ret.pos_id_within_seq
    IN  \A b \in 1..Len(ids) :
           /\ Len(pos[Bc(Len(pos), b)]) = Len(ids[b])
           /\ \A i \in 1..Len(ids[b]) :
                Attended(b, i) => pos[Bc(Len(pos), b)][i] = EarlierInDocument(b, i)

\* C8 as stated: whenever sequence-id masking is enabled and a sequence_id is
\* supplied, the returned position ids count within each document.
C8_Original == SeqInfoReturned => PositionsWithinDocuments

\* C8 amended: the same with attn_impl 'flash'; with any other attn_impl the
\* positions are 0..S-1 whatever the documents are.
C8_PositionsRestartUnderFlash ==
    SeqInfoReturned =>
        IF seqCall.attn_impl = "flash" THEN PositionsWithinDocuments
        ELSE seqCall.ret.pos_id_within_seq = << [i \in 1..seqCall.S |-> i - 1] >>

\* C8 witness: flash, documents of lengths 1 and 2 in one row.
C8_Witness ==
    /\ SeqInfoReturned
    /\ seqCall.attn_impl = "flash"
    /\ seqCall.sequence_id[1] = <<0, 1, 1>>
    /\ seqCall.ret.pos_id_within_seq[1] = <<0, 0, 1>>


\* Both functions were called on the same arguments.
BothCalled == seqCall.op = "gen_attention_mask_in_length"

\* The attended tokens of row b that are of document k.
TokensOf(b, k) ==
    {i \in 1..Len(seqCall.sequence_id[b]) :
        Attended(b, i) /\ seqCall.sequence_id[b][i] = k}

\* The segment length of document k in row b, 0 when the tensor has no column
\* for k.
SegmentLength(b, k) ==
    IF k + 1 <= Len(seqCall.mask_ret.ret[b]) THEN seqCall.mask_ret.ret[b][k + 1] ELSE 0

\* C25: gen_attention_mask_in_length returns the value, or raises the error,
\* of the first component of gen_sequence_id_info; where the one-hot encoding
\* is computed, the segment length of every document with an attended token is
\* 1 plus the largest position index of its tokens, and the segment lengths of
\* a row sum to the number of its attended tokens.
C25_LengthsAgreeWithPositions ==
    BothCalled =>
        /\ seqCall.mask_ret.err = seqCall.ret.err
        /\ seqCall.ret.err = "none" =>
              /\ seqCall.mask_ret.ret = seqCall.ret.attention_mask_in_length
              /\ seqCall.mask_ret.ret # NoTensor =>
                    \A b \in 1..Len(seqCall.sequence_id) :
                       /\ \A k \in {seqCall.sequence_id[b][i] : i \in 1..Len(seqCall.sequence_id[b])} :
                             TokensOf(b, k) # {} =>
                                \E i \in TokensOf(b, k) :
                                   /\ SegmentLength(b, k) = 1 + seqCall.ret.pos_id_within_seq[b][i]
                                   /\ \A j \in TokensOf(b, k) :
                                         seqCall.ret.pos_id_within_seq[b][j]
                                            <= seqCall.ret.pos_id_within_seq[b][i]
                       /\ SeqSum(seqCall.mask_ret.ret[b]) =
                             Cardinality({i \in 1..Len(seqCall.sequence_id[b]) : Attended(b, i)})
(***************************************************************************)
(*                 MPTModel._attn_bias, MPTModel.forward                   *)
(***************************************************************************)

\* A padding mask (B, S): every row is whole, or is padded by one position on
\* the left or on the right.
PadRows(S) ==
    { [i \in 1..S |-> TRUE], [i \in 1..S |-> i # 1], [i \in 1..S |-> i # S] }
PadMasks(B, S) == [1..B -> PadRows(S)]

\* attn_bias[:, :, :, _s_k:]
SliceKeysFrom(bias, _s_k) ==
    [b \in 1..Len(bias) |-> [h \in 1..Len(bias[b]) |->
       [i \in 1..Len(bias[b][h]) |->
          SubSeq(bias[b][h][i], _s_k + 1, Len(bias[b][h][i]))]]]

\* MPTModel._attn_bias.  self.attn_bias is None with flash; with torch it is
\* the (1, 1, max_seq_len, max_seq_len) zeros that sequence ids need, or None.
_attn_bias(cfg, attention_mask, sequence_id) ==
    LET self_attn_bias ==
            IF cfg.attn_impl = "torch" /\ cfg.attn_uses_sequence_id
              THEN AttnBias(FALSE, 1, cfg.max_seq_len) ELSE NoTensor
        applied ==
            IF cfg.attn_uses_sequence_id /\ sequence_id # NoTensor
              THEN apply_sequence_id(self_attn_bias, sequence_id, cfg.max_seq_len)
              ELSE [err |-> "none", attn_bias |-> self_attn_bias]
        s_k == Len(attention_mask[1])
        base == IF applied.attn_bias = NoTensor
                  THEN << << << [j \in 1..s_k |-> 0] >> >> >>
                  ELSE SliceKeysFrom(applied.attn_bias,
                          Max(0, Len(applied.attn_bias[1][1][1]) - s_k))
        \* ~attention_mask.view(-1, 1, 1, s_k)
        padded == [b \in 1..Len(attention_mask) |->
                     << [j \in 1..s_k |-> ~attention_mask[b][j]] >>]
    IN  IF cfg.attn_impl = "flash"
          THEN [err |-> "none", attn_bias |-> self_attn_bias]
        ELSE IF applied.err # "none" THEN applied
        ELSE IF attention_mask # NoTensor
          THEN [err |-> "none", attn_bias |-> masked_fill(base, padded, FloatMin)]
        ELSE applied

Raise(err, at) == [err |-> err, at |-> at]

\* A faulty forward: the length of past_key_values is not compared with n_layers.
forward_NoPastKeyValuesCheck(cfg, a) ==
    LET bias == _attn_bias(cfg, a.attention_mask, a.sequence_id)
        info == gen_sequence_id_info(a.sequence_id, a.S,
                    cfg.attn_uses_sequence_id, cfg.attn_impl, a.attention_mask)
    IN  IF ~a.return_dict THEN Raise("NotImplementedError", "return_dict")
        ELSE IF a.output_attentions /\ cfg.attn_impl # "torch"
          THEN Raise("NotImplementedError", "output_attentions")
        ELSE IF cfg.training /\ a.attention_mask # NoTensor
                /\ LeftPadded(a.attention_mask)
          THEN Raise("NotImplementedError", "training_left_padding")
        ELSE IF cfg.training /\ cfg.attn_uses_sequence_id
                /\ a.sequence_id = NoTensor
          THEN Raise("ValueError", "sequence_id_required")
        ELSE IF a.input_ids /\ a.inputs_embeds THEN Raise("ValueError", "both_inputs")
        ELSE IF ~a.input_ids /\ ~a.inputs_embeds THEN Raise("ValueError", "no_input")
        ELSE IF ~(a.S <= cfg.max_seq_len) THEN Raise("AssertionError", "seq_len")
        ELSE IF bias.err # "none" THEN Raise(bias.err, "_attn_bias")
        ELSE IF info.err # "none" THEN Raise(info.err, "gen_sequence_id_info")
        ELSE [err |-> "none", at |-> "blocks",
              attn_bias |-> bias.attn_bias,
              attention_mask_in_length |-> info.attention_mask_in_length,
              pos_id_within_seq |-> info.pos_id_within_seq]

\* MPTModel.forward up to the transformer blocks, called without cached keys
\* that fit: the argument checks in the order of the code, then the bias and
\* the sequence-id information that the blocks receive.
forward(cfg, a) ==
    LET bias == _attn_bias(cfg, a.attention_mask, a.sequence_id)
        info == gen_sequence_id_info(a.sequence_id, a.S,
                    cfg.attn_uses_sequence_id, cfg.attn_impl, a.attention_mask)
    IN  IF ~a.return_dict THEN Raise("NotImplementedError", "return_dict")
        ELSE IF a.output_attentions /\ cfg.attn_impl # "torch"
          THEN Raise("NotImplementedError", "output_attentions")
        ELSE IF cfg.training /\ a.attention_mask # NoTensor
                /\ LeftPadded(a.attention_mask)
          THEN Raise("NotImplementedError", "training_left_padding")
        ELSE IF cfg.training /\ cfg.attn_uses_sequence_id
                /\ a.sequence_id = NoTensor
          THEN Raise("ValueError", "sequence_id_required")
        ELSE IF a.input_ids /\ a.inputs_embeds THEN Raise("ValueError", "both_inputs")
        ELSE IF ~a.input_ids /\ ~a.inputs_embeds THEN Raise("ValueError", "no_input")
        ELSE IF ~(a.S <= cfg.max_seq_len) THEN Raise("AssertionError", "seq_len")
        ELSE IF a.past_key_values # None /\ a.past_key_values # cfg.n_layers
          THEN Raise("ValueError", "past_key_values")
        ELSE IF bias.err # "none" THEN Raise(bias.err, "_attn_bias")
        ELSE IF info.err # "none" THEN Raise(info.err, "gen_sequence_id_info")
        ELSE [err |-> "none", at |-> "blocks",
              attn_bias |-> bias.attn_bias,
              attention_mask_in_length |-> info.attention_mask_in_length,
              pos_id_within_seq |-> info.pos_id_within_seq]

\* The models: attn_impl, attn_uses_sequence_id, max_seq_len, one layer, in
\* training or evaluation mode.
ModelConfigs ==
    [attn_impl : AttnImpls, attn_uses_sequence_id : BOOLEAN,
     max_seq_len : 1..MaxFwdSeq, n_layers : {1}, training : BOOLEAN]

\* A forward call.  past_key_values is None or a list, given by its length.
CallForward ==
    /\ seqCall = NoCall
    /\ \E cfg \in ModelConfigs, B \in BatchSizes, S \in 1..MaxFwdSeq,
          input_ids \in BOOLEAN, inputs_embeds \in BOOLEAN,
          return_dict \in BOOLEAN, output_attentions \in BOOLEAN,
          past_key_values \in {None, 2} :
          \E attention_mask \in {NoTensor} \cup PadMasks(B, S),
             sequence_id \in {NoTensor} \cup Shape2(B, S, {0, 1}) :
             LET a == [input_ids |-> input_ids, inputs_embeds |-> inputs_embeds,
                       S |-> S, attention_mask |-> attention_mask,
                       sequence_id |-> sequence_id, return_dict |-> return_dict,
                       output_attentions |-> output_attentions,
                       past_key_values |-> past_key_values]
             IN  seqCall' = [op |-> "forward", cfg |-> cfg, args |-> a,
                             ret |-> forward(cfg, a)]
    /\ UNCHANGED seqOthers

\* ---- claims

\* A forward call with sequence-id masking enabled, a sequence_id and a
\* left-padded attention mask.
LeftPaddedWithSequenceId ==
    /\ seqCall.op = "forward"
    /\ seqCall.cfg.attn_uses_sequence_id
    /\ seqCall.args.sequence_id # NoTensor
    /\ seqCall.args.attention_mask # NoTensor
    /\ \E b \in 1..Len(seqCall.args.attention_mask) :
          ~seqCall.args.attention_mask[b][1]

\* One of the argument checks that precede the bias fails.
ArgumentCheckFails ==
    \/ seqCall.args.input_ids = seqCall.args.inputs_embeds
    \/ seqCall.args.S > seqCall.cfg.max_seq_len
    \/ seqCall.args.past_key_values \notin {None, seqCall.cfg.n_layers}

\* C9 as stated: such a call, with arguments that pass the checks before the
\* bias, fails with NotImplementedError.
C9_Original ==
    (LeftPaddedWithSequenceId /\ ~ArgumentCheckFails) =>
        seqCall.ret.err = "NotImplementedError"

\* C9 amended: such a call fails when attn_impl is 'flash' or the model is in
\* training mode, with NotImplementedError unless an earlier argument check
\* raises first; with 'torch' in evaluation mode it is accepted when the
\* arguments are valid, and the bias is built with the padded keys masked.
C9_LeftPaddingRejectedUnderFlashOrTraining ==
    LeftPaddedWithSequenceId =>
        LET c == seqCall.cfg
            a == seqCall.args
            r == seqCall.ret
        IN  /\ (c.attn_impl = "flash" \/ c.training) =>
                 /\ r.err # "none"
                 /\ r.err = "NotImplementedError" \/ ArgumentCheckFails
                 /\ (c.training \/ ~ArgumentCheckFails) => r.err = "NotImplementedError"
            /\ (c.attn_impl = "torch" /\ ~c.training /\ a.return_dict
                  /\ ~ArgumentCheckFails) =>
                 /\ r.err = "none"
                 /\ \A b \in 1..Len(a.attention_mask), i, j \in 1..a.S :
                       ~a.attention_mask[b][j] => r.attn_bias[b][1][i][j] = FloatMin

\* C9 witness: flash in evaluation mode, valid arguments, a left-padded row:
\* the error comes from the sequence-id information.
C9_Witness ==
    /\ LeftPaddedWithSequenceId
    /\ seqCall.cfg.attn_impl = "flash"
    /\ ~seqCall.cfg.training
    /\ seqCall.args.S = 2
    /\ seqCall.ret = Raise("NotImplementedError", "gen_sequence_id_info")


\* One of the six cases of C13 holds of the call.
FatalCase ==
    LET c == seqCall.cfg
        a == seqCall.args
    IN  \/ a.S > c.max_seq_len
        \/ a.input_ids /\ a.inputs_embeds
        \/ c.training /\ c.attn_uses_sequence_id /\ a.sequence_id = NoTensor
        \/ /\ c.training
           /\ a.attention_mask # NoTensor
           /\ \E b \in 1..Len(a.attention_mask) : ~a.attention_mask[b][1]
        \/ a.output_attentions /\ c.attn_impl # "torch"
        \/ a.past_key_values # None /\ a.past_key_values # c.n_layers

\* C13: forward fails before any transformer block is invoked when the sequence
\* is longer than max_seq_len, when both input_ids and inputs_embeds are given,
\* in training mode with attn_uses_sequence_id and no sequence_id, in training
\* mode with a left-padded attention mask, when output_attentions is requested
\* and attn_impl is not 'torch', and when past_key_values has a number of
\* entries other than n_layers.
C13_FatalCasesFailBeforeBlocks ==
    (seqCall.op = "forward" /\ FatalCase) =>
        /\ seqCall.ret.err # "none"
        /\ seqCall.ret.at # "blocks"

\* C13 witness: the only fault of the call is the length of past_key_values.
C13_Witness ==
    /\ seqCall.op = "forward"
    /\ seqCall.args.past_key_values = 2
    /\ seqCall.cfg.n_layers = 1
    /\ seqCall.args.S <= seqCall.cfg.max_seq_len
    /\ seqCall.args.output_attentions
    /\ seqCall.cfg.attn_impl = "torch"
    /\ seqCall.ret = Raise("ValueError", "past_key_values")

(***************************************************************************)
(*                 MPTModel.forward: THE LOOP OVER THE BLOCKS              *)
(***************************************************************************)

\* Bounds of the models and calls enumerated; MaxCalls is the number of forward
\* calls made on one model.
MaxFwdLayers == 3
MaxPast      == 2
FwdHeads     == 2
MaxCalls     == 2

\* Configurations with a flat order of n_layers named modules.
FwdBlockConfigs ==
    UNION { { [n_layers |-> n, order |-> [i \in 1..n |-> NameItem(names[i], 1)],
               repeat |-> 1, overrides |-> Overrides(rkv, rkvx)] :
                names \in [1..n -> ModuleNames], rkv \in RelIdx, rkvx \in RelIdx } :
            n \in 1..MaxFwdLayers }

\* The models MPTModel.__init__ can build: self.blocks (by the reuse indices of
\* every attention module), self.state_cache_layers and self.attn_impl.
FwdModels ==
    { [attn_impl |-> impl,
       blocks |-> _get_override_block_args_list(cfg).list,
       state_cache_layers |-> _get_override_block_args_list(cfg).cache] :
        cfg \in { c \in FwdBlockConfigs : _get_override_block_args_list(c).status = "ok" },
        impl \in AttnImpls }

\* The layout of a key tensor of past_key_values / of a block's `present`:
\* (batch, seq, dim) under flash, (batch, heads, head_dim, seq) under torch.
PastKeyShape(attn_impl, seq) ==
    IF attn_impl = "torch" THEN <<1, FwdHeads, 1, seq>> ELSE <<1, seq, FwdHeads>>

\* The axis (1-based) that holds the sequence positions of such a tensor.
SeqAxis(attn_impl) == IF attn_impl = "torch" THEN 4 ELSE 2

\* A key/value pair is described by the layer whose block returned it, by the
\* forward call it was returned in and by the slice taken of it: the first
\* index kept and the length kept on every axis.
NoKV == [src |-> None, call |-> None, from |-> <<>>, shape |-> <<>>]
Present(b_idx, attn_impl, seq) ==
    [src |-> b_idx, call |-> fwd.call,
     from |-> [i \in 1..Len(PastKeyShape(attn_impl, seq)) |-> 0],
     shape |-> PastKeyShape(attn_impl, seq)]

\* Python's t[:, start:] generalised to an axis (1-based): t[..., start:, ...].
SliceFrom(t, axis, start) ==
    LET cut == Min(start, t.shape[axis])
    IN  [t EXCEPT !.from[axis] = @ + cut, !.shape[axis] = @ - cut]

\* The entry stored in layer_kv_cache_dict: present[i][:, past_position:].
CacheEntry(present, past_position) == SliceFrom(present, 2, past_position)

\* dict[key] = value
DictSet(dict, key, value) ==
    [k \in DOMAIN dict \cup {key} |-> IF k = key THEN value ELSE dict[k]]

\* A faulty forward: the two cache dicts outlive the call, as attributes of the
\* model would.
EnterLayers_KeepsCaches ==
    /\ fwd.op \in {"model", "returned", "raised"}
    /\ fwd.call < MaxCalls
    /\ \E use_cache \in BOOLEAN, past \in {None} \cup 1..MaxPast :
         fwd' = [op |-> "loop", model |-> fwd.model, call |-> fwd.call + 1,
                 use_cache |-> use_cache, past |-> past,
                 past_position |-> IF past = None THEN 0 ELSE past,
                 past_key_values |->
                     IF past # None THEN "given"
                     ELSE IF use_cache
                             \/ fwd.model.state_cache_layers["reuse_kv_layer_idx"] # {}
                       THEN "empty" ELSE "none",
                 presents |-> [is_none |-> ~use_cache, items |-> <<>>],
                 layer_kv_cache_dict |->
                     IF fwd.op = "model" THEN EmptyDict ELSE fwd.layer_kv_cache_dict,
                 layer_kv_x_cache_dict |->
                     IF fwd.op = "model" THEN EmptyDict ELSE fwd.layer_kv_x_cache_dict,
                 b_idx |-> 0, x |-> <<fwd.call + 1, 0>>, calls |-> <<>>,
                 err |-> "none", ret |-> NoCall]
    /\ UNCHANGED fwdOthers

\* forward reaches the loop, in the first call on the model or in a later one:
\* `presents` is () or None (a tuple is told from None by is_none) and the
\* caches of the call are created. `past` is the sequence length of the
\* caller's past_key_values (None when not supplied). The hidden state is
\* named by the call and the number of blocks it went through.
EnterLayers ==
    /\ fwd.op \in {"model", "returned", "raised"}
    /\ fwd.call < MaxCalls
    /\ \E use_cache \in BOOLEAN, past \in {None} \cup 1..MaxPast :
         fwd' = [op |-> "loop", model |-> fwd.model, call |-> fwd.call + 1,
                 use_cache |-> use_cache, past |-> past,
                 past_position |-> IF past = None THEN 0 ELSE past,
                 past_key_values |->
                     IF past # None THEN "given"
                     ELSE IF use_cache
                             \/ fwd.model.state_cache_layers["reuse_kv_layer_idx"] # {}
                       THEN "empty" ELSE "none",
                 presents |-> [is_none |-> ~use_cache, items |-> <<>>],
                 layer_kv_cache_dict |-> EmptyDict,
                 layer_kv_x_cache_dict |-> EmptyDict,
                 b_idx |-> 0, x |-> <<fwd.call + 1, 0>>, calls |-> <<>>,
                 err |-> "none", ret |-> NoCall]
    /\ UNCHANGED fwdOthers

\* One iteration of the loop over self.blocks; S = 1 new position is forwarded.
\* An x_prev of None is the empty tuple.
RunLayer ==
    /\ fwd.op = "loop"
    /\ fwd.b_idx < Len(fwd.model.blocks)
    /\ LET b_idx == fwd.b_idx
           block == fwd.model.blocks[b_idx + 1]
           scl == fwd.model.state_cache_layers
           kv_missing == /\ block.reuse_kv_layer_idx # None
                         /\ block.reuse_kv_layer_idx \notin DOMAIN fwd.layer_kv_cache_dict
           prev_layer_key_value ==
               IF block.reuse_kv_layer_idx # None
                 THEN fwd.layer_kv_cache_dict[block.reuse_kv_layer_idx] ELSE NoKV
           kvx == IF b_idx \in scl["reuse_kv_x_layer_idx"]
                    THEN DictSet(fwd.layer_kv_x_cache_dict, b_idx, fwd.x)
                    ELSE fwd.layer_kv_x_cache_dict
           kvx_missing == /\ block.reuse_kv_x_layer_idx # None
                          /\ block.reuse_kv_x_layer_idx \notin DOMAIN kvx
           x_prev == IF block.reuse_kv_x_layer_idx # None
                       THEN kvx[block.reuse_kv_x_layer_idx] ELSE <<>>
           present == Present(b_idx, fwd.model.attn_impl, fwd.past_position + 1)
       IN  IF kv_missing
             THEN fwd' = [fwd EXCEPT !.op = "raised", !.err = "KeyError"]
           ELSE IF kvx_missing
             THEN fwd' = [fwd EXCEPT !.op = "raised", !.err = "KeyError",
                                     !.layer_kv_x_cache_dict = kvx]
           ELSE fwd' = [fwd EXCEPT
                   !.layer_kv_x_cache_dict = kvx,
                   !.calls = Append(@, [b_idx |-> b_idx, x |-> fwd.x,
                                        past_key_value |-> fwd.past_key_values,
                                        prev_layer_key_value |-> prev_layer_key_value,
                                        x_prev |-> x_prev]),
                   !.x = <<fwd.call, b_idx + 1>>,
                   !.presents = IF ~fwd.presents.is_none
                                  THEN [@ EXCEPT !.items = Append(@, present)] ELSE @,
                   !.layer_kv_cache_dict =
                       IF b_idx \in scl["reuse_kv_layer_idx"]
                         THEN DictSet(@, b_idx, CacheEntry(present, fwd.past_position))
                         ELSE @,
                   !.b_idx = b_idx + 1]
    /\ UNCHANGED fwdOthers

\* A faulty return: the presents are handed out whenever there are any.
ReturnForward_AlwaysReturnsPresents ==
    /\ fwd.op = "loop"
    /\ fwd.b_idx = Len(fwd.model.blocks)
    /\ fwd' = [fwd EXCEPT !.op = "returned",
                          !.ret = [past_key_values |->
                                      [is_none |-> FALSE, items |-> fwd.presents.items]]]
    /\ UNCHANGED fwdOthers

\* After the last block: norm_f and the BaseModelOutputWithPast returned.
ReturnForward ==
    /\ fwd.op = "loop"
    /\ fwd.b_idx = Len(fwd.model.blocks)
    /\ fwd' = [fwd EXCEPT !.op = "returned",
                          !.ret = [past_key_values |-> fwd.presents]]
    /\ UNCHANGED fwdOthers

\* ---- what the claims about the loop speak of

\* The invocation of layer j (0-based) in the call in progress.
LayerInvoked(j) == \E i \in 1..Len(fwd.calls) : fwd.calls[i].b_idx = j
CallOf(j) == fwd.calls[CHOOSE i \in 1..Len(fwd.calls) : fwd.calls[i].b_idx = j]

\* The key/value pair layer j returned, without the first past_position
\* sequence positions: every other axis is whole.
PresentWithoutPast(j) ==
    LET whole == PastKeyShape(fwd.model.attn_impl, fwd.past_position + 1)
        seq == SeqAxis(fwd.model.attn_impl)
    IN  [src |-> j, call |-> fwd.call,
         from |-> [i \in 1..Len(whole) |-> IF i = seq THEN fwd.past_position ELSE 0],
         shape |-> [i \in 1..Len(whole) |-> IF i = seq THEN 1 ELSE whole[i]]]

\* C12: a layer b that reuses key/value of layer j is invoked with the pair
\* layer j produced earlier in the same call, without the first past_position
\* sequence positions; a layer that reuses the hidden state of layer j is
\* invoked with the hidden state layer j was given; when forward raises KeyError
\* for a missing entry, layer b has not been invoked.
C12_ReusedStateIsTheSourceLayers ==
    fwd.op \in {"loop", "raised", "returned"} =>
        /\ \A i \in 1..Len(fwd.calls) :
             LET c == fwd.calls[i]
                 block == fwd.model.blocks[c.b_idx + 1]
             IN  /\ block.reuse_kv_layer_idx # None =>
                       /\ block.reuse_kv_layer_idx < c.b_idx
                       /\ LayerInvoked(block.reuse_kv_layer_idx)
                       /\ c.prev_layer_key_value
                            = PresentWithoutPast(block.reuse_kv_layer_idx)
                 /\ block.reuse_kv_x_layer_idx # None =>
                       /\ block.reuse_kv_x_layer_idx < c.b_idx
                       /\ LayerInvoked(block.reuse_kv_x_layer_idx)
                       /\ c.x_prev = CallOf(block.reuse_kv_x_layer_idx).x
        /\ fwd.err = "KeyError" => ~LayerInvoked(fwd.b_idx)


\* Some layer of the model reuses state of another.
HasReuseLayer ==
    \E i \in 1..Len(fwd.model.blocks) :
        \/ fwd.model.blocks[i].reuse_kv_layer_idx # None
        \/ fwd.model.blocks[i].reuse_kv_x_layer_idx # None

\* C23: with use_cache the past_key_values forward returns has one entry for
\* every layer, the i-th being the present layer i returned in this call;
\* without use_cache it is None, also for a model with reuse layers, whose
\* blocks are given a past_key_value and so do return a present.
C23_PastKeyValuesReturned ==
    fwd.op = "returned" =>
        LET pkv == fwd.ret.past_key_values IN
        IF fwd.use_cache
          THEN /\ ~pkv.is_none
               /\ Len(pkv.items) = Len(fwd.model.blocks)
               /\ \A i \in 1..Len(pkv.items) :
                     pkv.items[i] = Present(i - 1, fwd.model.attn_impl, fwd.past_position + 1)
          ELSE pkv.is_none /\ pkv.items = <<>>

\* C23 witness: a second call without use_cache and without past_key_values on
\* a model with a layer that reuses key/value has returned.
C23_Witness ==
    /\ fwd.op = "returned" /\ fwd.call = 2
    /\ ~fwd.use_cache /\ fwd.past_key_values = "empty"
    /\ \E i \in 1..Len(fwd.model.blocks) : fwd.model.blocks[i].reuse_kv_layer_idx # None
    /\ Len(fwd.calls) = Len(fwd.model.blocks)

\* C23 witness of the other case: use_cache, three layers.
C23_WitnessUseCache ==
    /\ fwd.op = "returned" /\ fwd.use_cache
    /\ HasReuseLayer
    /\ Len(fwd.ret.past_key_values.items) = 3

\* C24: the two cache dicts are empty when a forward call reaches the loop,
\* whatever the calls before it stored; every entry in them was stored in the
\* call in progress, and so was every state a reuse layer is given.
C24_CachesScopedToOneCall ==
    fwd.op \in {"loop", "raised", "returned"} =>
        /\ fwd.b_idx = 0 =>
              /\ fwd.layer_kv_cache_dict = EmptyDict
              /\ fwd.layer_kv_x_cache_dict = EmptyDict
        /\ \A j \in DOMAIN fwd.layer_kv_cache_dict :
              fwd.layer_kv_cache_dict[j].call = fwd.call /\ j < fwd.b_idx
        /\ \A j \in DOMAIN fwd.layer_kv_x_cache_dict :
              fwd.layer_kv_x_cache_dict[j][1] = fwd.call /\ j < fwd.b_idx
        /\ \A i \in 1..Len(fwd.calls) :
              LET c == fwd.calls[i]
                  block == fwd.model.blocks[c.b_idx + 1]
              IN  /\ block.reuse_kv_layer_idx # None =>
                        c.prev_layer_key_value.call = fwd.call
                  /\ block.reuse_kv_x_layer_idx # None =>
                        c.x_prev[1] = fwd.call

\* C24 witness: in the second call on a model, a layer was given key/value and
\* a layer was given a hidden state that an earlier layer left in the caches.
C24_Witness ==
    /\ fwd.op = "returned" /\ fwd.call = 2
    /\ \E i \in 1..Len(fwd.calls) : fwd.calls[i].prev_layer_key_value # NoKV
    /\ \E i \in 1..Len(fwd.calls) : fwd.calls[i].x_prev # <<>>

\* C27: forward on a model built by _get_override_block_args_list raises no
\* KeyError for a missing cache entry: the target of every reuse layer is in
\* state_cache_layers under the kind of the reuse and is an earlier layer, and
\* the entries of the targets that the loop has passed are in the caches.
C27_NoMissingCacheKeyError ==
    fwd.op \in {"loop", "raised", "returned"} =>
        /\ fwd.op # "raised" /\ fwd.err = "none"
        /\ \A b \in 0..(Len(fwd.model.blocks) - 1) :
              LET block == fwd.model.blocks[b + 1] IN
              /\ block.reuse_kv_layer_idx # None =>
                    /\ block.reuse_kv_layer_idx \in
                           fwd.model.state_cache_layers["reuse_kv_layer_idx"]
                    /\ block.reuse_kv_layer_idx < b
                    /\ block.reuse_kv_layer_idx >= 0
                    /\ b <= fwd.b_idx =>
                          block.reuse_kv_layer_idx \in DOMAIN fwd.layer_kv_cache_dict
              /\ block.reuse_kv_x_layer_idx # None =>
                    /\ block.reuse_kv_x_layer_idx \in
                           fwd.model.state_cache_layers["reuse_kv_x_layer_idx"]
                    /\ block.reuse_kv_x_layer_idx < b
                    /\ block.reuse_kv_x_layer_idx >= 0
                    /\ b <= fwd.b_idx =>
                          block.reuse_kv_x_layer_idx \in DOMAIN fwd.layer_kv_x_cache_dict

\* C27 witness: a call has returned on a model of three layers, one that reuses
\* key/value and one that reuses a hidden state.
C27_Witness ==
    /\ fwd.op = "returned"
    /\ Len(fwd.calls) = 3
    /\ \E i \in 1..3 : fwd.model.blocks[i].reuse_kv_layer_idx # None
    /\ \E i \in 1..3 : fwd.model.blocks[i].reuse_kv_x_layer_idx # None
(***************************************************************************)
(*                          convert_text_to_mds                            *)
(***************************************************************************)

\* Bounds: invocations of convert_text_to_mds on one output folder, text files
\* in the input folder, worker processes.
MaxRuns      == 2
MaxFiles     == 2
MaxProcesses == 2

\* A string is the sequence of its lines: "a\nb.txt" is <<"a", "b.txt">> and a
\* string without a line break has one element.
ObjectNames == { <<"a.txt">>, <<"b.txt">>, <<"a.txt", "b.txt">> }
ArgsStrs    == { <<"args1">>, <<"args2">> }

\* The listings get_object_names can return: distinct names in some order.
Listings ==
    { l \in UNION { [1..n -> ObjectNames] : n \in 0..MaxFiles } :
        \A i, j \in 1..Len(l) : i # j => l[i] # l[j] }

\* A file that does not exist.
NoFile == <<>>

\* write_done_file: '\n'.join([args_str] + object_names) + '\n'; the text of
\* the file, again as the sequence of its lines, the last one empty.
write_done_file(args_str, object_names) ==
    Flatten(<<args_str>> \o object_names) \o <<"">>

\* df.read().splitlines(): the lines as strings; a final line break adds no
\* empty line.
splitlines(text) ==
    LET n == IF text[Len(text)] = "" THEN Len(text) - 1 ELSE Len(text)
    IN  [i \in 1..n |-> <<text[i]>>]

\* A faulty is_already_processed: the names are compared by their number only.
IsAlreadyProcessed_CountsNamesOnly(done_file, args_str, object_names) ==
    IF done_file = NoFile THEN FALSE
    ELSE LET done_file_contents == splitlines(done_file)
         IN  /\ done_file_contents[1] = args_str
             /\ Len(done_file_contents) - 1 = Len(object_names)

\* is_already_processed, on the done file of the output root.
is_already_processed(done_file, args_str, object_names) ==
    IF done_file = NoFile THEN FALSE
    ELSE LET done_file_contents == splitlines(done_file)
             prev_args_str == done_file_contents[1]
             prev_names == SubSeq(done_file_contents, 2, Len(done_file_contents))
         IN  IF prev_args_str # args_str THEN FALSE
             ELSE IF Len(prev_names) # Len(object_names) THEN FALSE
             ELSE \A idx \in 1..Len(prev_names) : object_names[idx] = prev_names[idx]

\* math.ceil(a / b)
Ceil(a, b) == (a + b - 1) \div b

\* str(n) for n >= 0: the decimal digits.
RECURSIVE Str(_)
Str(n) == IF n < 10 THEN <<n>> ELSE Str(n \div 10) \o <<n % 10>>

\* A faulty get_task_args: a slice is one name too long, so that it holds the
\* first name of the next group as well.
GetTaskArgs_SlicesOverlap(object_names, n_groups) ==
    LET num_objects == Len(object_names)
        objs_per_group == Ceil(num_objects, n_groups)
        starts == { i \in 0..(num_objects - 1) : i % objs_per_group = 0 }
    IN  [g \in 1..Cardinality(starts) |->
            [object_names |->
                SubSeq(object_names, (g - 1) * objs_per_group + 1,
                       Min((g - 1) * objs_per_group + objs_per_group + 1, num_objects)),
             output_subdir |-> <<"output_root", Str(g - 1)>>]]

\* get_task_args: the tasks in the order they are yielded; group g - 1 takes
\* objs_per_group names from i = (g - 1) * objs_per_group on and writes to
\* os.path.join(output_root, str(group)), a path given by its components.
get_task_args(object_names, n_groups) ==
    LET num_objects == Len(object_names)
        objs_per_group == Ceil(num_objects, n_groups)
        starts == { i \in 0..(num_objects - 1) : i % objs_per_group = 0 }
    IN  [g \in 1..Cardinality(starts) |->
            [object_names |->
                SubSeq(object_names, (g - 1) * objs_per_group + 1,
                       Min((g - 1) * objs_per_group + objs_per_group, num_objects)),
             output_subdir |-> <<"output_root", Str(g - 1)>>]]

\* A folder of the conversion: the group subdirectories with their numbers of
\* shards, the merged shards that index.json lists (None without index.json)
\* and the text of the done file.
EmptyFolder == [groups |-> {}, index |-> None, done |-> NoFile]
IsEmpty(folder) ==
    folder.groups = {} /\ folder.index = None /\ folder.done = NoFile

\* The remote output location: whether the output folder is remote, and the
\* objects uploaded to it.
RemoteOutputs == [is_remote : BOOLEAN, index : {None}, shards : {FALSE}, done : {NoFile}]

\* The output folder that later invocations see.
OutputDone == IF remoteOut.is_remote THEN remoteOut.done ELSE localOut.done
Output == IF remoteOut.is_remote THEN remoteOut ELSE localOut

\* os.listdir(local_output_folder) when the upload starts.
FilesToUpload == {"index.json", "shards", "done"}

\* The end of an invocation: it returns or raises, as `outcome` tells.
End(outcome) ==
    /\ pc' = "idle"
    /\ run' = [run EXCEPT !.outcome = outcome]

\* An invocation of convert_text_to_mds; `before` is the last invocation
\* that completed on this output folder, `from_args` the arguments of
\* convert_text_to_mds_from_args when the invocation came through it.
Invocation(args_str, reprocess, processes, object_names) ==
    [op |-> "convert_text_to_mds", args_str |-> args_str, reprocess |-> reprocess,
     processes |-> processes, object_names |-> object_names,
     before |-> prev, outcome |-> "running", next |-> 1,
     files_to_upload |-> {}, from_args |-> NoCall]

\* convert_text_to_mds up to the start of the conversion, for the invocation r:
\* the listing, the already-processed check and the check of the output folder.
StartConversion(r) ==
    LET stop(outcome) ==
            /\ pc' = "idle"
            /\ run' = [r EXCEPT !.outcome = outcome]
            /\ tasks' = <<>>
            /\ localOut' = localOut
    IN  /\ IF Len(r.object_names) = 0
             THEN stop("InputFolderMissingDataError")
           ELSE IF ~r.reprocess
                   /\ is_already_processed(OutputDone, r.args_str, r.object_names)
             THEN stop("skipped")
           ELSE IF ~remoteOut.is_remote /\ ~IsEmpty(localOut)
             THEN stop("OutputFolderNotEmptyError")
           ELSE /\ run' = r
                \* a remote output is converted in a new temporary folder
                /\ localOut' = IF remoteOut.is_remote THEN EmptyFolder ELSE localOut
                /\ IF r.processes > 1
                     THEN /\ pc' = "pool"
                          /\ tasks' = [g \in DOMAIN get_task_args(r.object_names, r.processes) |->
                                         [names |-> get_task_args(r.object_names, r.processes)[g].object_names,
                                          status |-> "pending"]]
                     ELSE /\ pc' = "single"
                          /\ tasks' = <<>>
        /\ nruns' = nruns + 1
        /\ snap' = Output
        /\ events' = {}
        /\ UNCHANGED <<remoteOut, prev>>
        /\ UNCHANGED pipeOthers

\* An invocation of convert_text_to_mds on drawn arguments.
Invoke ==
    /\ pc = "idle"
    /\ nruns < MaxRuns
    /\ \E args_str \in ArgsStrs, reprocess \in BOOLEAN,
          processes \in 1..MaxProcesses, object_names \in Listings :
         StartConversion(Invocation(args_str, reprocess, processes, object_names))

\* An optional text that is None.
NoText == <<>>

\* The arguments of convert_text_to_mds_from_args that vary between the
\* invocations on one input and one output folder.
FromArgsInputs ==
    [use_tokenizer_eos : BOOLEAN, eos_text : {NoText, <<"<sep>">>},
     reprocess : BOOLEAN, processes : 1..MaxProcesses]

\* convert_text_to_mds_from_args up to its call of convert_text_to_mds: the
\* eos text, and args_str = str(args). The repr of a dict is one line that
\* tells the dict, so the line is given by the dict; the tokenizer's eos
\* token is '</s>'.
convert_text_to_mds_from_args(a) ==
    LET eos_text == IF a.use_tokenizer_eos THEN <<"</s>">>
                    ELSE IF a.eos_text = NoText THEN <<"">>
                    ELSE a.eos_text
        args == [eos_text |-> eos_text, processes |-> a.processes,
                 reprocess |-> a.reprocess]
    IN  [err |-> "none", eos_text |-> eos_text, processes |-> a.processes,
         reprocess |-> a.reprocess, args_str |-> <<args>>]

\* An invocation of convert_text_to_mds_from_args on drawn arguments.
InvokeFromArgs ==
    /\ pc = "idle"
    /\ nruns < MaxRuns
    /\ \E a \in FromArgsInputs, object_names \in Listings :
         LET c == convert_text_to_mds_from_args(a)
         IN  IF c.err # "none"
               THEN /\ pc' = "idle"
                    /\ run' = [Invocation(<<>>, a.reprocess, a.processes, object_names)
                                 EXCEPT !.outcome = c.err, !.from_args = a]
                    /\ nruns' = nruns + 1
                    /\ snap' = Output
                    /\ events' = {}
                    /\ UNCHANGED <<tasks, localOut, remoteOut, prev>>
                    /\ UNCHANGED pipeOthers
               ELSE StartConversion([Invocation(c.args_str, c.reprocess, c.processes,
                                                object_names) EXCEPT !.from_args = a])

\* A worker process of the pool takes a submitted task.
WorkerStart(i) ==
    /\ pc \in {"pool", "shutdown"}
    /\ tasks[i].status = "pending"
    /\ Cardinality({j \in DOMAIN tasks : tasks[j].status = "running"}) < run.processes
    /\ tasks' = [tasks EXCEPT ![i].status = "running"]
    /\ events' = events \cup {"convert"}
    /\ UNCHANGED <<pc, run, localOut, remoteOut, prev, snap, nruns>>
    /\ UNCHANGED pipeOthers

\* download_and_convert returns in a worker: its group folder holds the
\* shards that the windows of its files filled, possibly none.
WorkerFinish(i, shards) ==
    /\ pc \in {"pool", "shutdown"}
    /\ tasks[i].status = "running"
    /\ tasks' = [tasks EXCEPT ![i].status = "done"]
    /\ localOut' = [localOut EXCEPT !.groups = @ \cup {<<i, shards>>}]
    /\ UNCHANGED <<pc, run, remoteOut, events, prev, snap, nruns>>
    /\ UNCHANGED pipeOthers

\* download_and_convert raises in a worker.
WorkerFail(i) ==
    /\ pc \in {"pool", "shutdown"}
    /\ tasks[i].status = "running"
    /\ tasks' = [tasks EXCEPT ![i].status = "failed"]
    /\ UNCHANGED <<pc, run, localOut, remoteOut, events, prev, snap, nruns>>
    /\ UNCHANGED pipeOthers

\* A faulty collection of the results: a failed task is passed over.
CollectResult_PassesOverFailure ==
    /\ pc = "pool"
    /\ tasks[run.next].status \in {"done", "failed"}
    /\ run' = [run EXCEPT !.next = @ + 1]
    /\ pc' = IF run.next = Len(tasks) THEN "merge" ELSE "pool"
    /\ UNCHANGED <<tasks, localOut, remoteOut, events, prev, snap, nruns>>
    /\ UNCHANGED pipeOthers

\* list(executor.map(...)): the main process takes the results in the order
\* of the tasks; after the last one the `with` block is left.
CollectResult ==
    /\ pc = "pool"
    /\ tasks[run.next].status = "done"
    /\ run' = [run EXCEPT !.next = @ + 1]
    /\ pc' = IF run.next = Len(tasks) THEN "merge" ELSE "pool"
    /\ UNCHANGED <<tasks, localOut, remoteOut, events, prev, snap, nruns>>
    /\ UNCHANGED pipeOthers

\* The result of a failed task re-raises its exception in the main process:
\* the tasks not yet started are cancelled and the executor shuts down.
PoolRaise ==
    /\ pc = "pool"
    /\ tasks[run.next].status = "failed"
    /\ tasks' = [i \in DOMAIN tasks |->
                   IF tasks[i].status = "pending"
                     THEN [tasks[i] EXCEPT !.status = "cancelled"] ELSE tasks[i]]
    /\ pc' = "shutdown"
    /\ UNCHANGED <<run, localOut, remoteOut, events, prev, snap, nruns>>
    /\ UNCHANGED pipeOthers

\* executor.shutdown(wait=True) on leaving the `with` block has waited for the
\* running tasks; the exception leaves convert_text_to_mds.
ShutdownDone ==
    /\ pc = "shutdown"
    /\ \A i \in DOMAIN tasks : tasks[i].status # "running"
    /\ End("WorkerError")
    /\ UNCHANGED <<tasks, localOut, remoteOut, events, prev, snap, nruns>>
    /\ UNCHANGED pipeOthers

\* merge_shard_groups(local_output_folder): the shards of the groups are moved
\* to the root under one index.json and the group folders are removed.
merge_shard_groups(folder) ==
    [folder EXCEPT !.groups = {},
                   !.index = SeqSum([g \in 1..Cardinality(folder.groups) |->
                       (CHOOSE p \in folder.groups : p[1] = g)[2]])]

Merge ==
    /\ pc = "merge"
    /\ localOut' = merge_shard_groups(localOut)
    /\ events' = events \cup {"merge"}
    /\ pc' = "index"
    /\ UNCHANGED <<run, tasks, remoteOut, prev, snap, nruns>>
    /\ UNCHANGED pipeOthers

\* The single-process path: download_and_convert in the main process writes
\* index.json and the shards to the local output folder.
SingleConvert(shards) ==
    /\ pc = "single"
    /\ localOut' = [localOut EXCEPT !.index = shards]
    /\ events' = events \cup {"convert"}
    /\ pc' = "index"
    /\ UNCHANGED <<run, tasks, remoteOut, prev, snap, nruns>>
    /\ UNCHANGED pipeOthers

\* download_and_convert raises in the main process.
SingleFail ==
    /\ pc = "single"
    /\ events' = events \cup {"convert"}
    /\ End("WorkerError")
    /\ UNCHANGED <<tasks, localOut, remoteOut, prev, snap, nruns>>
    /\ UNCHANGED pipeOthers

\* A faulty end of the conversion: the done file is written before index.json
\* is read.
WriteDone_BeforeIndexIsRead ==
    /\ pc = "index"
    /\ IF localOut.index = 0
         THEN /\ End("DatasetTooSmallError")
              /\ localOut' = [localOut EXCEPT
                                !.done = write_done_file(run.args_str, run.object_names)]
              /\ events' = events \cup {"write_done_file"}
              /\ prev' = prev
         ELSE /\ localOut' = [localOut EXCEPT
                                !.done = write_done_file(run.args_str, run.object_names)]
              /\ events' = events \cup {"write_done_file"}
              /\ IF remoteOut.is_remote
                   THEN /\ pc' = "upload"
                        /\ run' = [run EXCEPT !.files_to_upload = FilesToUpload]
                        /\ prev' = prev
                   ELSE /\ End("completed")
                        /\ prev' = [args_str |-> run.args_str,
                                    object_names |-> run.object_names]
    /\ UNCHANGED <<tasks, remoteOut, snap, nruns>>
    /\ UNCHANGED pipeOthers

\* index.json is read: without shards DatasetTooSmallError; else the done file
\* is written, and a local output is complete.
WriteDone ==
    /\ pc = "index"
    /\ IF localOut.index = 0
         THEN /\ End("DatasetTooSmallError")
              /\ UNCHANGED <<localOut, events, prev>>
         ELSE /\ localOut' = [localOut EXCEPT
                                !.done = write_done_file(run.args_str, run.object_names)]
              /\ events' = events \cup {"write_done_file"}
              /\ IF remoteOut.is_remote
                   THEN /\ pc' = "upload"
                        /\ run' = [run EXCEPT !.files_to_upload = FilesToUpload]
                        /\ prev' = prev
                   ELSE /\ End("completed")
                        /\ prev' = [args_str |-> run.args_str,
                                    object_names |-> run.object_names]
    /\ UNCHANGED <<tasks, remoteOut, snap, nruns>>
    /\ UNCHANGED pipeOthers

\* upload_object for one file of the listing, in the order of os.listdir.
UploadFile(file) ==
    /\ pc = "upload"
    /\ file \in run.files_to_upload
    /\ remoteOut' = IF file = "index.json" THEN [remoteOut EXCEPT !.index = localOut.index]
                    ELSE IF file = "shards" THEN [remoteOut EXCEPT !.shards = TRUE]
                    ELSE [remoteOut EXCEPT !.done = localOut.done]
    /\ run' = [run EXCEPT !.files_to_upload = @ \ {file}]
    /\ events' = events \cup {"upload"}
    /\ UNCHANGED <<pc, tasks, localOut, prev, snap, nruns>>
    /\ UNCHANGED pipeOthers

\* upload_object raises.
UploadFail ==
    /\ pc = "upload"
    /\ run.files_to_upload # {}
    /\ End("UploadError")
    /\ UNCHANGED <<tasks, localOut, remoteOut, events, prev, snap, nruns>>
    /\ UNCHANGED pipeOthers

\* Every file is uploaded: convert_text_to_mds returns.
Return ==
    /\ pc = "upload"
    /\ run.files_to_upload = {}
    /\ End("completed")
    /\ prev' = [args_str |-> run.args_str, object_names |-> run.object_names]
    /\ UNCHANGED <<tasks, localOut, remoteOut, events, snap, nruns>>
    /\ UNCHANGED pipeOthers

(***************************************************************************)
(*        is_already_processed, write_done_file, get_task_args             *)
(***************************************************************************)

\* The done files an output root can hold: none, or one that write_done_file
\* wrote for some arguments and some listing.
DoneFiles ==
    {NoFile} \cup { write_done_file(a, l) : a \in ArgsStrs, l \in Listings }

\* One call of is_already_processed on an output root, local or remote.
CallIsAlreadyProcessed ==
    /\ utilCall = NoCall
    /\ \E done_file \in DoneFiles, args_str \in ArgsStrs, object_names \in Listings :
         utilCall' = [op |-> "is_already_processed", done_file |-> done_file,
                      args_str |-> args_str, object_names |-> object_names,
                      ret |-> is_already_processed(done_file, args_str, object_names)]
    /\ UNCHANGED utilOthers

\* ---- claims

\* The lines of a file that ends with a line break.
FileLines(text) == SubSeq(text, 1, Len(text) - 1)

\* C16: is_already_processed returns True if and only if a done file exists at
\* the output root, its first line equals args_str and its remaining lines
\* equal object_names in number and in order; without a done file it returns
\* False.
C16_TrueIffDoneFileMatches ==
    utilCall.op = "is_already_processed" =>
        LET file == utilCall.done_file
            lines == FileLines(file)
            names == utilCall.object_names
        IN  /\ utilCall.ret \in BOOLEAN
            /\ file = NoFile => utilCall.ret = FALSE
            /\ utilCall.ret <=>
                 /\ file # NoFile
                 /\ utilCall.args_str = <<lines[1]>>
                 /\ Len(lines) - 1 = Len(names)
                 /\ \A i \in 1..Len(names) : names[i] = <<lines[i + 1]>>

\* C16 witness: a done file with the same arguments and the same two names in
\* the other order: the answer is False.
C16_Witness ==
    /\ utilCall.op = "is_already_processed"
    /\ utilCall.done_file = write_done_file(utilCall.args_str, <<<<"a.txt">>, <<"b.txt">>>>)
    /\ utilCall.object_names = <<<<"b.txt">>, <<"a.txt">>>>
    /\ utilCall.ret = FALSE

\* C16 witness: a done file that matches: the answer is True.
C16_WitnessTrue ==
    /\ utilCall.op = "is_already_processed"
    /\ Len(utilCall.object_names) = 2
    /\ utilCall.ret = TRUE

\* write_done_file on a local folder.
CallWriteDoneFile ==
    /\ utilCall = NoCall
    /\ \E args_str \in ArgsStrs, object_names \in Listings :
         utilCall' = [op |-> "write_done_file", args_str |-> args_str,
                      object_names |-> object_names,
                      done_file |-> write_done_file(args_str, object_names)]
    /\ UNCHANGED utilOthers

\* is_already_processed on the folder just written, with the same arguments.
CheckWrittenFolder ==
    /\ utilCall.op = "write_done_file"
    /\ utilCall' = [op |-> "write_then_check", args_str |-> utilCall.args_str,
                    object_names |-> utilCall.object_names,
                    done_file |-> utilCall.done_file,
                    ret |-> is_already_processed(utilCall.done_file, utilCall.args_str,
                                                 utilCall.object_names)]
    /\ UNCHANGED utilOthers

\* C17: write_done_file(folder, args_str, names) produces a done file whose
\* first line is args_str and whose following lines are the names, one per
\* line in the given order, and is_already_processed(folder, args_str, names)
\* then returns True.
C17_WriteThenCheckRoundTrip ==
    utilCall.op = "write_then_check" =>
        LET lines == FileLines(utilCall.done_file)
            names == utilCall.object_names
        IN  /\ utilCall.args_str = <<lines[1]>>
            /\ Len(lines) = 1 + Len(names)
            /\ \A i \in 1..Len(names) : names[i] = <<lines[i + 1]>>
            /\ utilCall.ret = TRUE

\* Bounds of the calls of get_task_args enumerated.
MaxTaskFiles == 6
MaxGroups    == 4

\* Names of objects, distinct, as get_object_names lists them.
NamePool ==
    << <<"a.txt">>, <<"b.txt">>, <<"c.txt">>, <<"d.txt">>, <<"e.txt">>, <<"f.txt">>,
       <<"g.txt">>, <<"h.txt">> >>

\* One call of get_task_args, the generator run to its end.
CallGetTaskArgs ==
    /\ utilCall = NoCall
    /\ \E n \in 1..MaxTaskFiles, first \in 1..2, n_groups \in 1..MaxGroups :
         LET object_names == SubSeq(NamePool, first, first + n - 1)
         IN  utilCall' = [op |-> "get_task_args", object_names |-> object_names,
                          n_groups |-> n_groups,
                          ret |-> get_task_args(object_names, n_groups)]
    /\ UNCHANGED utilOthers

\* The list positions that task g takes, by the lengths of the tasks before it.
RECURSIVE TaskStart(_, _)
TaskStart(tasklist, g) ==
    IF g = 1 THEN 1 ELSE TaskStart(tasklist, g - 1) + Len(tasklist[g - 1].object_names)
TaskPositions(tasklist, g) ==
    TaskStart(tasklist, g)..(TaskStart(tasklist, g) + Len(tasklist[g].object_names) - 1)

\* C20: for a non-empty object_names and n_groups >= 1, every list position is
\* assigned to exactly one task yielded by get_task_args, every task is
\* non-empty, the name lists of the tasks in task order make up object_names,
\* and task g writes to output_root/<g>, which no other task does.
C20_TasksShareNothing ==
    utilCall.op = "get_task_args" =>
        LET tasklist == utilCall.ret
            names == utilCall.object_names
            G == DOMAIN tasklist
        IN  /\ \A p \in 1..Len(names) :
                 /\ Cardinality({g \in G : p \in TaskPositions(tasklist, g)}) = 1
                 /\ \A g \in G : p \in TaskPositions(tasklist, g) =>
                       tasklist[g].object_names[p - TaskStart(tasklist, g) + 1] = names[p]
            /\ \A g \in G : Len(tasklist[g].object_names) >= 1
            /\ Flatten([g \in G |-> tasklist[g].object_names]) = names
            /\ \A g \in G : tasklist[g].output_subdir = <<"output_root", Str(g - 1)>>
            /\ \A g, h \in G : g # h => tasklist[g].output_subdir # tasklist[h].output_subdir

\* C20 witness: five names in three groups: two tasks of two names and one of
\* one name.
C20_Witness ==
    /\ utilCall.op = "get_task_args"
    /\ Len(utilCall.object_names) = 5
    /\ utilCall.n_groups = 3
    /\ Len(utilCall.ret) = 3
    /\ Len(utilCall.ret[3].object_names) = 1
    /\ utilCall.ret[3].output_subdir = <<"output_root", <<2>>>>

\* C21: when there are at least n_groups object names, get_task_args yields
\* exactly n_groups tasks, one for each worker process.
C21_ExactlyNGroupsTasks ==
    (utilCall.op = "get_task_args" /\ Len(utilCall.object_names) >= utilCall.n_groups) =>
        Len(utilCall.ret) = utilCall.n_groups

\* ---- claims

Invoked == run # NoCall

\* The invocation follows one that completed with the same args_str.
AfterCompletedRun ==
    /\ Invoked
    /\ run.before # NoCall
    /\ run.before.args_str = run.args_str
    /\ ~run.reprocess

\* The listing has as many names as the one of the completed invocation and
\* differs from it in exactly one of them.
OneNameDiffers ==
    /\ Len(run.object_names) = Len(run.before.object_names)
    /\ Cardinality({i \in 1..Len(run.object_names) :
                      run.object_names[i] # run.before.object_names[i]}) = 1

\* C3: after a completed conversion, an invocation with the same args_str,
\* reprocess=False and the same object names in the same order returns without
\* converting, merging, writing the done file or uploading, and leaves the
\* output folder as it was.
C3_SecondRunIsNoOp ==
    (AfterCompletedRun /\ run.before.object_names = run.object_names) =>
        /\ run.outcome = "skipped"
        /\ events = {}
        /\ Output = snap

\* C4: after a completed conversion, an invocation with the same arguments
\* (reprocess=False) and the same output folder on a listing in which one
\* name differs converts again: unless the conversion itself fails, the
\* workers have run and the done file lists the current object names.
C4_ChangedListingReconverts ==
    (AfterCompletedRun /\ OneNameDiffers /\ pc = "idle"
       /\ run.outcome \notin {"WorkerError", "DatasetTooSmallError", "UploadError"}) =>
        /\ run.outcome = "completed"
        /\ {"convert", "write_done_file"} \subseteq events
        /\ OutputDone = write_done_file(run.args_str, run.object_names)

\* The multi-process path has been taken.
MultiProcess == Invoked /\ run.processes > 1 /\ tasks # <<>>

SomeTaskFailed == \E i \in DOMAIN tasks : tasks[i].status = "failed"

\* C5: with processes > 1 the merge starts only after every worker task has
\* finished successfully and the done file is written only after the merge;
\* once a worker has raised, neither the merge nor the done-file write nor an
\* upload takes place, and the invocation ends with the worker's exception.
C5_MergeOnlyAfterAllWorkers ==
    MultiProcess =>
        /\ (pc = "merge" \/ "merge" \in events) =>
              \A i \in DOMAIN tasks : tasks[i].status = "done"
        /\ "write_done_file" \in events => "merge" \in events
        /\ "upload" \in events => "write_done_file" \in events
        /\ SomeTaskFailed =>
              /\ events \cap {"merge", "write_done_file", "upload"} = {}
              /\ pc \in {"pool", "shutdown", "idle"}
              /\ pc = "idle" => run.outcome = "WorkerError"

\* C5 witness: one worker finished, another raised, and the invocation has
\* ended with the worker's exception.
C5_Witness ==
    /\ MultiProcess
    /\ pc = "idle"
    /\ run.outcome = "WorkerError"
    /\ \E i, j \in DOMAIN tasks :
          tasks[i].status = "done" /\ tasks[j].status = "failed"

\* C5 witness of the merge: both workers finished and the output is complete.
C5_WitnessMerged ==
    /\ MultiProcess
    /\ Len(tasks) = 2
    /\ run.outcome = "completed"
    /\ "merge" \in events

\* Object names without line breaks.
SingleLineNames ==
    \A i \in 1..Len(run.object_names) : Len(run.object_names[i]) = 1

\* With object names free of line breaks the second run is a no-op.
SecondRunIsNoOpOnSingleLineNames ==
    (Invoked /\ SingleLineNames) => C3_SecondRunIsNoOp


\* The invocation found a local output folder that exists and is not empty,
\* and an input folder with objects.
LocalOutputNotEmpty ==
    /\ Invoked
    /\ ~remoteOut.is_remote
    /\ ~IsEmpty(snap)
    /\ Len(run.object_names) > 0

\* C18: on a pre-existing non-empty output folder convert_text_to_mds raises
\* OutputFolderNotEmptyError exactly when the run is not reprocessing: it is
\* raised with reprocess=False when the output is not marked as processed, and
\* with reprocess=True it is not raised and the conversion is carried out.
C18_NotEmptyErrorUnlessReprocess ==
    LocalOutputNotEmpty =>
        /\ ~run.reprocess =>
             ( run.outcome = "OutputFolderNotEmptyError"
               <=> ~is_already_processed(snap.done, run.args_str, run.object_names) )
        /\ run.reprocess =>
             /\ run.outcome # "OutputFolderNotEmptyError"
             /\ pc = "idle" => "convert" \in events


\* The conversion has produced an index.json without shards and the
\* invocation has ended.
EndedWithoutShards ==
    /\ Invoked
    /\ pc = "idle"
    /\ "convert" \in events
    /\ localOut.index = 0

\* C19: when the conversion produces an index.json whose shard list is empty,
\* convert_text_to_mds raises DatasetTooSmallError, writes no done file and
\* uploads nothing, so that the output is not taken as already processed by a
\* later invocation, whatever its arguments.
C19_NoShardsNoDoneFile ==
    /\ (Invoked /\ localOut.index = 0) =>
          /\ pc \in {"index", "idle"}
          /\ localOut.done = NoFile
          /\ events \cap {"write_done_file", "upload"} = {}
          /\ remoteOut = [remoteOut EXCEPT !.index = None, !.shards = FALSE, !.done = NoFile]
    /\ EndedWithoutShards =>
          /\ run.outcome = "DatasetTooSmallError"
          /\ \A a \in ArgsStrs, l \in Listings : ~is_already_processed(OutputDone, a, l)

\* C19 witness: two workers finished without a shard, the merge gave an
\* index.json that lists none, and the invocation raised.
C19_Witness ==
    /\ EndedWithoutShards
    /\ MultiProcess
    /\ "merge" \in events
    /\ run.outcome = "DatasetTooSmallError"
    /\ remoteOut.is_remote


\* The invocation came through convert_text_to_mds_from_args.
FromArgs == run.op = "convert_text_to_mds" /\ run.from_args # NoCall

\* C22: convert_text_to_mds_from_args raises ValueError when use_tokenizer_eos
\* is True and eos_text is not None, and no conversion is started then (seen
\* on an input folder that holds files).
C22_EosTextWithTokenizerEosRaises ==
    (/\ FromArgs
     /\ run.from_args.use_tokenizer_eos
     /\ run.from_args.eos_text # NoText
     /\ Len(run.object_names) > 0) =>
        /\ run.outcome = "ValueError"
        /\ pc = "idle"
        /\ events = {}

\* The last completed run and the present one have the same input files, with
\* names of one line, and the same arguments but for reprocess, which was True
\* then and is False now.
SameButReprocessed ==
    /\ FromArgs
    /\ run.before # NoCall
    /\ Len(run.before.args_str) = 1
    /\ run.before.args_str[1].reprocess
    /\ ~run.reprocess
    /\ run.args_str[1] = [run.before.args_str[1] EXCEPT !.reprocess = FALSE]
    /\ run.object_names = run.before.object_names
    /\ SingleLineNames

\* C29: after a successful run with reprocess=True, a run with reprocess=False
\* and otherwise identical arguments and input files is skipped as already
\* processed: it converts nothing and leaves the output as it was.
C29_SkipIndependentOfReprocess ==
    SameButReprocessed =>
        /\ run.outcome = "skipped"
        /\ events = {}
        /\ Output = snap

\* C28: for a remote output location a done file in remote storage implies
\* that index.json and the shard files are in remote storage, in every state
\* of the upload loop and after a failure between two uploads.
C28_RemoteDoneImpliesCompleteOutput ==
    (remoteOut.is_remote /\ remoteOut.done # NoFile) =>
        (remoteOut.index # None /\ remoteOut.shards)
(***************************************************************************)
(*                            SPECIFICATIONS                               *)
(***************************************************************************)

\* Block topology: a configuration is drawn, construct_blocks is applied to it.
InitTopo ==
    /\ blockCfg \in BlockConfigs(MaxLayers)
    /\ blockRes = NoCall
    /\ ccfg = NoCall /\ cpc = "off" /\ buffer = <<>> /\ first_chunk = TRUE
    /\ yielded = <<>> /\ stream = <<>>
    /\ seqCall = NoCall
    /\ lossCall = NoCall
    /\ pc = "off" /\ run = NoCall /\ tasks = <<>> /\ localOut = NoCall
    /\ remoteOut = NoCall /\ events = {} /\ prev = NoCall /\ snap = NoCall
    /\ nruns = 0
    /\ mergeCall = NoCall /\ fwd = NoCall /\ utilCall = NoCall
NextTopo == ConstructBlocks
SpecTopo == InitTopo /\ [][NextTopo]_vars

\* The iteration of one ConcatTokensFromFilesDataset over the files it is given.
InitConcat ==
    /\ ccfg \in ConcatConfigs
    /\ cpc = "between_files" /\ buffer = <<>> /\ first_chunk = TRUE
    /\ yielded = <<>> /\ stream = <<>>
    /\ blockCfg = NoCall /\ blockRes = NoCall
    /\ seqCall = NoCall
    /\ lossCall = NoCall
    /\ pc = "off" /\ run = NoCall /\ tasks = <<>> /\ localOut = NoCall
    /\ remoteOut = NoCall /\ events = {} /\ prev = NoCall /\ snap = NoCall
    /\ nruns = 0
    /\ mergeCall = NoCall /\ fwd = NoCall /\ utilCall = NoCall
NextConcat ==
    \/ OpenFile
    \/ \E withBos \in BOOLEAN, n \in 0..MaxChunkTokens : ReadChunk(withBos, n)
    \/ DecodeError
    \/ CloseFile
    \/ FinishIter
SpecConcat == InitConcat /\ [][NextConcat]_vars

\* Loss: a labels tensor and shift_labels are drawn, the loss is computed.
InitLoss ==
    /\ lossCall \in [op : {"args"}, labels : LabelTensors, shift_labels : BOOLEAN]
    /\ blockCfg = NoCall /\ blockRes = NoCall
    /\ ccfg = NoCall /\ cpc = "off" /\ buffer = <<>> /\ first_chunk = TRUE
    /\ yielded = <<>> /\ stream = <<>>
    /\ seqCall = NoCall
    /\ pc = "off" /\ run = NoCall /\ tasks = <<>> /\ localOut = NoCall
    /\ remoteOut = NoCall /\ events = {} /\ prev = NoCall /\ snap = NoCall
    /\ nruns = 0
    /\ mergeCall = NoCall /\ fwd = NoCall /\ utilCall = NoCall
NextLoss ==
    \/ ComputeLoss
    \/ CallGetTargets
SpecLoss == InitLoss /\ [][NextLoss]_vars

\* Sequence ids: one call of a sequence-id operation on drawn arguments.
InitSeq ==
    /\ seqCall = NoCall
    /\ blockCfg = NoCall /\ blockRes = NoCall
    /\ ccfg = NoCall /\ cpc = "off" /\ buffer = <<>> /\ first_chunk = TRUE
    /\ yielded = <<>> /\ stream = <<>>
    /\ lossCall = NoCall
    /\ pc = "off" /\ run = NoCall /\ tasks = <<>> /\ localOut = NoCall
    /\ remoteOut = NoCall /\ events = {} /\ prev = NoCall /\ snap = NoCall
    /\ nruns = 0
    /\ mergeCall = NoCall /\ fwd = NoCall /\ utilCall = NoCall
NextSeq == CallApplySequenceId
SpecSeq == InitSeq /\ [][NextSeq]_vars

\* Sequence-id information: one call of gen_sequence_id_info.
InitSeqInfo ==
    /\ seqCall = NoCall
    /\ blockCfg = NoCall /\ blockRes = NoCall
    /\ ccfg = NoCall /\ cpc = "off" /\ buffer = <<>> /\ first_chunk = TRUE
    /\ yielded = <<>> /\ stream = <<>>
    /\ lossCall = NoCall
    /\ pc = "off" /\ run = NoCall /\ tasks = <<>> /\ localOut = NoCall
    /\ remoteOut = NoCall /\ events = {} /\ prev = NoCall /\ snap = NoCall
    /\ nruns = 0
    /\ mergeCall = NoCall /\ fwd = NoCall /\ utilCall = NoCall
NextSeqInfo ==
    \/ CallGenSequenceIdInfo
    \/ CallGenAttentionMaskInLength
SpecSeqInfo == InitSeqInfo /\ [][NextSeqInfo]_vars

\* Forward: one forward call of a model on drawn arguments.
InitForward ==
    /\ seqCall = NoCall
    /\ blockCfg = NoCall /\ blockRes = NoCall
    /\ ccfg = NoCall /\ cpc = "off" /\ buffer = <<>> /\ first_chunk = TRUE
    /\ yielded = <<>> /\ stream = <<>>
    /\ lossCall = NoCall
    /\ pc = "off" /\ run = NoCall /\ tasks = <<>> /\ localOut = NoCall
    /\ remoteOut = NoCall /\ events = {} /\ prev = NoCall /\ snap = NoCall
    /\ nruns = 0
    /\ mergeCall = NoCall /\ fwd = NoCall /\ utilCall = NoCall
NextForward == CallForward
SpecForward == InitForward /\ [][NextForward]_vars

\* The pipeline: invocations of convert_text_to_mds on one output folder,
\* local or remote, that is empty at first.
Init ==
    /\ pc = "idle" /\ run = NoCall /\ tasks = <<>>
    /\ localOut = EmptyFolder
    /\ remoteOut \in RemoteOutputs
    /\ events = {} /\ prev = NoCall /\ snap = NoCall /\ nruns = 0
    /\ blockCfg = NoCall /\ blockRes = NoCall
    /\ ccfg = NoCall /\ cpc = "off" /\ buffer = <<>> /\ first_chunk = TRUE
    /\ yielded = <<>> /\ stream = <<>>
    /\ seqCall = NoCall /\ lossCall = NoCall
    /\ mergeCall = NoCall /\ fwd = NoCall /\ utilCall = NoCall
Next ==
    \/ Invoke
    \/ \E i \in DOMAIN tasks : WorkerStart(i)
    \/ \E i \in DOMAIN tasks, shards \in 0..1 : WorkerFinish(i, shards)
    \/ \E i \in DOMAIN tasks : WorkerFail(i)
    \/ CollectResult
    \/ PoolRaise
    \/ ShutdownDone
    \/ Merge
    \/ \E shards \in 0..1 : SingleConvert(shards)
    \/ SingleFail
    \/ WriteDone
    \/ \E file \in FilesToUpload : UploadFile(file)
    \/ UploadFail
    \/ Return
Spec == Init /\ [][Next]_vars

\* One invocation of convert_text_to_mds on an empty output folder.
InvokeFresh == nruns = 0 /\ Invoke
NextFresh ==
    \/ InvokeFresh
    \/ \E i \in DOMAIN tasks : WorkerStart(i)
    \/ \E i \in DOMAIN tasks, shards \in 0..1 : WorkerFinish(i, shards)
    \/ \E i \in DOMAIN tasks : WorkerFail(i)
    \/ CollectResult
    \/ PoolRaise
    \/ ShutdownDone
    \/ Merge
    \/ \E shards \in 0..1 : SingleConvert(shards)
    \/ SingleFail
    \/ WriteDone
    \/ \E file \in FilesToUpload : UploadFile(file)
    \/ UploadFail
    \/ Return
SpecFresh == Init /\ [][NextFresh]_vars


\* The loop over the blocks: forward calls, one after the other, of a model that
\* was built.
InitLayers ==
    /\ fwd \in [op : {"model"}, model : FwdModels, call : {0}]
    /\ blockCfg = NoCall /\ blockRes = NoCall
    /\ ccfg = NoCall /\ cpc = "off" /\ buffer = <<>> /\ first_chunk = TRUE
    /\ yielded = <<>> /\ stream = <<>>
    /\ seqCall = NoCall /\ lossCall = NoCall
    /\ pc = "off" /\ run = NoCall /\ tasks = <<>> /\ localOut = NoCall
    /\ remoteOut = NoCall /\ events = {} /\ prev = NoCall /\ snap = NoCall
    /\ nruns = 0
    /\ mergeCall = NoCall /\ utilCall = NoCall
NextLayers ==
    \/ EnterLayers
    \/ RunLayer
    \/ ReturnForward
SpecLayers == InitLayers /\ [][NextLayers]_vars

\* Merging of block arguments: one call of _override_block_args.
InitMerge ==
    /\ mergeCall \in [op : {"args"}, block_args : ArgDicts, override_config : ArgDicts,
                      allowed_block_overrides : AllowedDicts]
    /\ blockCfg = NoCall /\ blockRes = NoCall
    /\ ccfg = NoCall /\ cpc = "off" /\ buffer = <<>> /\ first_chunk = TRUE
    /\ yielded = <<>> /\ stream = <<>>
    /\ seqCall = NoCall /\ lossCall = NoCall
    /\ pc = "off" /\ run = NoCall /\ tasks = <<>> /\ localOut = NoCall
    /\ remoteOut = NoCall /\ events = {} /\ prev = NoCall /\ snap = NoCall
    /\ nruns = 0
    /\ fwd = NoCall /\ utilCall = NoCall
NextMerge == CallOverrideBlockArgs
SpecMerge == InitMerge /\ [][NextMerge]_vars

\* The helpers of the pipeline: one call of a helper on drawn arguments.
InitUtil ==
    /\ utilCall = NoCall
    /\ blockCfg = NoCall /\ blockRes = NoCall
    /\ ccfg = NoCall /\ cpc = "off" /\ buffer = <<>> /\ first_chunk = TRUE
    /\ yielded = <<>> /\ stream = <<>>
    /\ seqCall = NoCall /\ lossCall = NoCall
    /\ pc = "off" /\ run = NoCall /\ tasks = <<>> /\ localOut = NoCall
    /\ remoteOut = NoCall /\ events = {} /\ prev = NoCall /\ snap = NoCall
    /\ nruns = 0
    /\ mergeCall = NoCall /\ fwd = NoCall
NextUtil ==
    \/ CallIsAlreadyProcessed
    \/ CallWriteDoneFile
    \/ CheckWrittenFolder
    \/ CallGetTaskArgs
SpecUtil == InitUtil /\ [][NextUtil]_vars

\* The pipeline entered through convert_text_to_mds_from_args.
NextFromArgs ==
    \/ InvokeFromArgs
    \/ \E i \in DOMAIN tasks : WorkerStart(i)
    \/ \E i \in DOMAIN tasks, shards \in 0..1 : WorkerFinish(i, shards)
    \/ \E i \in DOMAIN tasks : WorkerFail(i)
    \/ CollectResult
    \/ PoolRaise
    \/ ShutdownDone
    \/ Merge
    \/ \E shards \in 0..1 : SingleConvert(shards)
    \/ SingleFail
    \/ WriteDone
    \/ \E file \in FilesToUpload : UploadFile(file)
    \/ UploadFail
    \/ Return
SpecFromArgs == Init /\ [][NextFromArgs]_vars
=============================================================================
